---- MODULE Spec2Model ----
(***************************************************************************)
(* CueAI live cue and playback director (src/game.js).                     *)
(*                                                                         *)
(* Text is a sequence of one-character strings, so that tokenizing,        *)
(* normalizing and loose word equality are computed character by           *)
(* character as the JavaScript does.  Indices into the story are 0-based   *)
(* as in the source; Tok(s, i) reads the i-th element, 0-based.            *)
(***************************************************************************)
EXTENDS Integers, Sequences, FiniteSets, Bags, TLC

\* ------------------------------------------------------------------------
\* Characters and strings
\* ------------------------------------------------------------------------
LowerSeq == <<"a","b","c","d","e","f","g","h","i","j","k","l","m","n","o","p","q","r","s","t","u","v","w","x","y","z">>
UpperSeq == <<"A","B","C","D","E","F","G","H","I","J","K","L","M","N","O","P","Q","R","S","T","U","V","W","X","Y","Z">>
DigitSeq == <<"0","1","2","3","4","5","6","7","8","9">>

Range(s) == { s[k] : k \in 1..Len(s) }

Lower == Range(LowerSeq)
Upper == Range(UpperSeq)
Digit == Range(DigitSeq)

\* \s of a JavaScript regular expression (the blanks the inputs use)
IsSpace(c) == c \in {" ", "\n", "\t"}

\* \w of a JavaScript regular expression
WordChars == Lower \cup Upper \cup Digit \cup {"_"}

IsWordChar(c) == c \in WordChars

\* String.prototype.toLowerCase on one character
LowerOf == [c \in Upper |-> LowerSeq[CHOOSE k \in 1..26 : UpperSeq[k] = c]]

ToLowerChar(c) == IF c \in Upper THEN LowerOf[c] ELSE c

ToLowerCase(s) == [k \in 1..Len(s) |-> ToLowerChar(s[k])]

\* 0-based element access, as the source indexes arrays
Tok(s, i) == s[i + 1]

\* Array.prototype.slice(from, to) with 0-based, end-exclusive bounds
Slice(s, from, to) ==
    LET hi == IF to > Len(s) THEN Len(s) ELSE to
    IN  IF from >= hi THEN <<>> ELSE SubSeq(s, from + 1, hi)

EndsWith(s, suf) ==
    /\ Len(s) >= Len(suf)
    /\ SubSeq(s, Len(s) - Len(suf) + 1, Len(s)) = suf

DropLast(s, n) == SubSeq(s, 1, Len(s) - n)

\* last index q >= p such that every character of s[p..q] satisfies the
\* class test (the greedy + of a regular expression); p is 1-based
RECURSIVE RunEnd(_, _, _)
RunEnd(s, p, cls) ==
    IF p < Len(s) /\ s[p + 1] \in cls THEN RunEnd(s, p + 1, cls) ELSE p

CharsOf(s) == Range(s)

\* ------------------------------------------------------------------------
\* Story text: tokenizeStory, normalizeWord
\* ------------------------------------------------------------------------
\* text.split(/(\s+|[^\w']+)/g).filter(p => p !== undefined && p !== '')
\* A separator is a greedy run of blanks, or, when the run does not start
\* with a blank, a greedy run of characters outside [\w'] (blanks included).
\* Everything between two separators is one token.
IsTokenChar(c) == IsWordChar(c) \/ c = "'"

RECURSIVE TokenizeFrom(_, _)
TokenizeFrom(text, p) ==
    IF p > Len(text) THEN <<>>
    ELSE LET c == text[p]
             all == CharsOf(text)
             cls == IF IsTokenChar(c) THEN { x \in all : IsTokenChar(x) }
                    ELSE IF IsSpace(c) THEN { x \in all : IsSpace(x) }
                    ELSE { x \in all : ~IsTokenChar(x) }
             q == RunEnd(text, p, cls)
         IN  <<SubSeq(text, p, q)>> \o TokenizeFrom(text, q + 1)

tokenizeStory(text) == TokenizeFrom(text, 1)

\* String(tok).toLowerCase().replace(/[^a-z0-9']+/g, '')
NormChars == Lower \cup Digit \cup {"'"}

IsNormChar(c) == c \in NormChars

normalizeWord(tok) == SelectSeq(ToLowerCase(tok), IsNormChar)

\* text.toLowerCase().replace(/[^a-z0-9'\s]+/g, ' ').split(/\s+/).filter(Boolean)
ReplaceNonSpoken(s) ==
    [k \in 1..Len(s) |-> IF IsNormChar(s[k]) \/ IsSpace(s[k]) THEN s[k] ELSE " "]

RECURSIVE SplitBlanksFrom(_, _)
SplitBlanksFrom(s, p) ==
    IF p > Len(s) THEN <<>>
    ELSE IF IsSpace(s[p]) THEN SplitBlanksFrom(s, p + 1)
    ELSE LET q == RunEnd(s, p, { x \in CharsOf(s) : ~IsSpace(x) })
         IN  <<SubSeq(s, p, q)>> \o SplitBlanksFrom(s, q + 1)

SpokenWords(text) == SplitBlanksFrom(ReplaceNonSpoken(ToLowerCase(text)), 1)

\* ------------------------------------------------------------------------
\* eqLoose
\* ------------------------------------------------------------------------
\* s.replace(/'(s)?$/, '')
base(s) ==
    IF EndsWith(s, <<"'","s">>) THEN DropLast(s, 2)
    ELSE IF EndsWith(s, <<"'">>) THEN DropLast(s, 1)
    ELSE s

\* r.replace(/(ing|ed|ly|er|est)$/,'') then r.replace(/(es|s)$/,'')
strip(s) ==
    LET r1 == IF EndsWith(s, <<"i","n","g">>) THEN DropLast(s, 3)
              ELSE IF EndsWith(s, <<"e","d">>) THEN DropLast(s, 2)
              ELSE IF EndsWith(s, <<"l","y">>) THEN DropLast(s, 2)
              ELSE IF EndsWith(s, <<"e","r">>) THEN DropLast(s, 2)
              ELSE IF EndsWith(s, <<"e","s","t">>) THEN DropLast(s, 3)
              ELSE s
    IN  IF EndsWith(r1, <<"e","s">>) THEN DropLast(r1, 2)
        ELSE IF EndsWith(r1, <<"s">>) THEN DropLast(r1, 1)
        ELSE r1

irregular ==
    << <<<<"w","o","l","v","e","s">>, <<"w","o","l","f">>>>, <<<<"c","h","i","l","d","r","e","n">>, <<"c","h","i","l","d">>>>,
       <<<<"m","e","n">>, <<"m","a","n">>>>, <<<<"w","o","m","e","n">>, <<"w","o","m","a","n">>>>,
       <<<<"g","e","e","s","e">>, <<"g","o","o","s","e">>>>, <<<<"m","i","c","e">>, <<"m","o","u","s","e">>>>,
       <<<<"f","e","e","t">>, <<"f","o","o","t">>>>, <<<<"t","e","e","t","h">>, <<"t","o","o","t","h">>>> >>

IrregularOf(a, b) == \E k \in 1..Len(irregular) : irregular[k] = <<a, b>>

eqLoose(a, b) ==
    IF a = <<>> \/ b = <<>> THEN a = b
    ELSE IF a = b THEN TRUE
    ELSE LET a1 == strip(base(a))
             b1 == strip(base(b))
         IN  \/ (a1 # <<>> /\ b1 # <<>> /\ a1 = b1)
             \/ IrregularOf(a, b)
             \/ IrregularOf(b, a)

\* /^(the|and|a|an|to|of|in|on|at|with)$/
StopWords ==
    { <<"t","h","e">>, <<"a","n","d">>, <<"a">>, <<"a","n">>, <<"t","o">>, <<"o","f">>, <<"i","n">>, <<"o","n">>,
      <<"a","t">>, <<"w","i","t","h">> }

\* /^(the|and|a|an|to|of|in|on|at|with|it|is|was)$/
RecoverySkipWords == StopWords \cup { <<"i","t">>, <<"i","s">>, <<"w","a","s">> }


\* ------------------------------------------------------------------------
\* Story aligner: pure parts of advanceStoryWithTranscript
\* ------------------------------------------------------------------------
\* while (i < this.storyNorm.length && this.storyNorm[i] === '') i++;
RECURSIVE SkipEmpty(_, _)
SkipEmpty(norm, i) ==
    IF i < Len(norm) /\ Tok(norm, i) = <<>> THEN SkipEmpty(norm, i + 1) ELSE i

\* getStoryCueMap: story keyword -> SFX query
storyCueMap ==
    << <<<<"b","e","l","l">>, <<"b","e","l","l"," ","c","h","i","m","e">>>>, <<<<"b","e","l","l","s">>, <<"b","e","l","l"," ","c","h","i","m","e">>>>,
       <<<<"c","l","o","c","k">>, <<"t","i","c","k"," ","t","o","c","k">>>>, <<<<"m","i","d","n","i","g","h","t">>, <<"c","l","o","c","k"," ","c","h","i","m","e">>>>,
       <<<<"h","o","r","s","e">>, <<"h","o","r","s","e"," ","g","a","l","l","o","p","i","n","g">>>>, <<<<"h","o","r","s","e","s">>, <<"h","o","r","s","e"," ","g","a","l","l","o","p","i","n","g">>>>,
       <<<<"c","o","a","c","h">>, <<"c","a","r","r","i","a","g","e"," ","c","r","e","a","k">>>>, <<<<"s","t","e","p">>, <<"f","o","o","t","s","t","e","p","s">>>>,
       <<<<"s","t","e","p","s">>, <<"f","o","o","t","s","t","e","p","s">>>>, <<<<"d","o","o","r">>, <<"d","o","o","r"," ","c","r","e","a","k">>>>,
       <<<<"k","n","o","c","k">>, <<"d","o","o","r"," ","k","n","o","c","k">>>>, <<<<"w","i","n","d">>, <<"w","i","n","d"," ","w","h","o","o","s","h">>>>,
       <<<<"s","t","o","r","m">>, <<"t","h","u","n","d","e","r">>>>, <<<<"t","h","u","n","d","e","r">>, <<"t","h","u","n","d","e","r">>>>,
       <<<<"r","a","i","n">>, <<"r","a","i","n"," ","o","n"," ","w","i","n","d","o","w","s">>>>, <<<<"o","w","l">>, <<"o","w","l"," ","h","o","o","t">>>>,
       <<<<"w","o","l","f">>, <<"w","o","l","f"," ","h","o","w","l">>>>, <<<<"c","r","o","w","d">>, <<"c","r","o","w","d"," ","c","h","e","e","r","i","n","g">>>>,
       <<<<"a","p","p","l","a","u","s","e">>, <<"a","p","p","l","a","u","s","e">>>>, <<<<"f","i","r","e">>, <<"f","i","r","e","p","l","a","c","e">>>>,
       <<<<"f","l","a","m","e">>, <<"f","i","r","e","p","l","a","c","e">>>>, <<<<"w","i","t","c","h">>, <<"w","i","t","c","h"," ","c","a","c","k","l","e">>>>,
       <<<<"m","a","g","i","c">>, <<"m","a","g","i","c"," ","w","h","o","o","s","h">>>>, <<<<"s","p","e","l","l">>, <<"m","a","g","i","c"," ","s","p","e","l","l">>>>,
       <<<<"s","w","o","r","d">>, <<"s","w","o","r","d"," ","s","w","i","n","g">>>>, <<<<"g","l","a","s","s">>, <<"g","l","a","s","s"," ","s","h","a","t","t","e","r">>>>,
       <<<<"m","i","r","r","o","r">>, <<"g","l","a","s","s"," ","s","h","a","t","t","e","r">>>>, <<<<"b","e","a","s","t">>, <<"m","o","n","s","t","e","r"," ","g","r","o","w","l">>>>,
       <<<<"d","r","a","g","o","n">>, <<"d","r","a","g","o","n"," ","g","r","o","w","l">>>>, <<<<"h","e","a","r","t">>, <<"h","e","a","r","t","b","e","a","t">>>>,
       <<<<"c","r","y">>, <<"w","o","m","a","n"," ","s","c","r","e","a","m">>>>, <<<<"s","c","r","e","a","m">>, <<"w","o","m","a","n"," ","s","c","r","e","a","m">>>> >>

InCueMap(w) == \E k \in 1..Len(storyCueMap) : storyCueMap[k][1] = w

CueQuery(w) == storyCueMap[CHOOSE k \in 1..Len(storyCueMap) : storyCueMap[k][1] = w][2]

\* The "strict sequential match" loop (game.js 489-498) from spoken word
\* number n on.  Returns the scan position i, the number of matched words
\* and the matched words in order (each is passed to maybeTriggerStorySfx).
RECURSIVE ForwardScan(_, _, _, _, _, _)
ForwardScan(norm, spoken, n, i, progressed, hits) ==
    IF n > Len(spoken) THEN [i |-> i, progressed |-> progressed, hits |-> hits]
    ELSE LET w  == spoken[n]
             i1 == SkipEmpty(norm, i)
         IN  IF i1 >= Len(norm)
             THEN [i |-> i1, progressed |-> progressed, hits |-> hits]
             ELSE IF eqLoose(Tok(norm, i1), w)
             THEN ForwardScan(norm, spoken, n + 1, i1 + 1, progressed + 1,
                              Append(hits, w))
             ELSE IF Tok(norm, i1) \in StopWords
             THEN ForwardScan(norm, spoken, n + 1, i1 + 1, progressed, hits)
             ELSE ForwardScan(norm, spoken, n + 1, i1, progressed, hits)

\* the scan window widened by mistake
lookahead_wide == 40 + 8

lookahead == 40
minMatchWords == 3

\* recovery attempted for every batch, however short
stuckWords_any == 0 + 1

stuckWords == 3

Min(a, b) == IF a < b THEN a ELSE b

\* inner loop of attemptStoryRecovery (game.js 527-540): number of spoken
\* words matched by the run of window tokens that starts at k
RECURSIVE MatchRun(_, _, _, _, _)
MatchRun(window, spoken, k, j, matched) ==
    IF ~(k < Len(window) /\ j < Len(spoken)) THEN matched
    ELSE IF Tok(window, k) = <<>>
    THEN MatchRun(window, spoken, k + 1, j, matched)
    ELSE IF eqLoose(Tok(window, k), Tok(spoken, j))
    THEN MatchRun(window, spoken, k + 1, j + 1, matched + 1)
    ELSE IF Tok(window, k) \in RecoverySkipWords
    THEN MatchRun(window, spoken, k + 1, j, matched)
    ELSE matched

\* outer loop of attemptStoryRecovery (game.js 524-545)
RECURSIVE RecoveryFrom(_, _, _, _, _)
RecoveryFrom(window, spoken, minMatch, storyIndex, startIdx) ==
    IF ~(startIdx < Len(window) - minMatch) THEN storyIndex
    ELSE IF MatchRun(window, spoken, startIdx, 0, 0) >= minMatch
    THEN storyIndex + startIdx
    ELSE RecoveryFrom(window, spoken, minMatch, storyIndex, startIdx + 1)

attemptStoryRecovery(norm, storyIndex, spoken) ==
    LET minMatch == Min(minMatchWords, Len(spoken))
        window   == Slice(norm, storyIndex, storyIndex + lookahead)
    IN  RecoveryFrom(window, spoken, minMatch, storyIndex, 0)

\* The cursor computation of advanceStoryWithTranscript (game.js 485-508)
\* for a non-empty list of spoken words: new position, matched words.
StoryScan(norm, storyIndex, spoken) ==
    LET f == ForwardScan(norm, spoken, 1, storyIndex, 0, <<>>)
        recovered == attemptStoryRecovery(norm, storyIndex, spoken)
        jump == /\ f.progressed = 0
                /\ Len(spoken) >= stuckWords
                /\ recovered > storyIndex
    IN  [i |-> IF jump THEN recovered ELSE f.i, hits |-> f.hits, jump |-> jump]


\* ------------------------------------------------------------------------
\* State
\* ------------------------------------------------------------------------
VARIABLES
    app,        \* the fields of the CueAI object (game.js constructor)
    howls,      \* the Howler registry: id -> sound that is playing
    tasks,      \* bag of suspended async calls (awaiting a remote answer)
    timers,     \* pending setTimeout callbacks
    now,        \* Date.now(), in milliseconds
    storyLog,   \* history: the advanceStoryWithTranscript calls on the open story
    cueLog,     \* history: the last checkInstantKeywords call
    musicLog,   \* history: the analysis answer the step just taken gave to the
                \* music director, <<>> after any other step
    preloadLog, \* history: the preload or prefetch task the step just taken
                \* resumed, <<>> after any other step
    speechLog,  \* history: the speech results handled so far
    rateLimitMap, \* the backend's table of request counts: IP -> record
    served      \* history: per IP, the time and status of each /analyze request

vars == <<app, howls, tasks, timers, now, storyLog, cueLog, musicLog, preloadLog, speechLog,
          rateLimitMap, served>>

NoHowl == 0         \* null reference to a playing sound
NoTimer == -1       \* null timer handle
NoStory == ""       \* null story reference

\* no call of runWithConcurrency has been made: its queue, the number of
\* runners inside their loop, whether Promise.all(runners) has resolved, and
\* as history the task functions called and those that have completed
NoPool == [queue |-> <<>>, runners |-> 0, resolved |-> FALSE, limit |-> 0, size |-> 0,
           started |-> <<>>, finished |-> <<>>]

\* no startStoryFlowAsync has been called: the story it is to show, the
\* token and the start time that its waitForPreloadComplete holds, whether it
\* switched the mode, and whether it is still waiting
NoFlow == [id |-> NoStory, token |-> 0, start |-> 0, switched |-> FALSE, waiting |-> FALSE]

\* The stories of stories.json (input data): id -> text
stories ==
    [ once  |-> <<"O","n","c","e"," ","u","p","o","n"," ","a"," ","t","i","m","e">>,
      dog   |-> <<"t","h","e"," ","d","o","g","."," ","T","h","e"," ","d","o","g","'","s"," ","b","e","l","l","!">>,
      wolf  |-> <<"g","o"," ","g","o"," ","g","o"," ","g","o"," ","g","o"," ","g","o"," ","g","o"," ","g","o"," ","g","o"," ","g","o"," ","g","o"," ","g","o"," ","g","o"," ","g","o"," ","g","o"," ","g","o"," ","g","o"," ","g","o"," ","g","o"," ","g","o"," ","w","o","l","v","e","s"," ","r","a","n"," ","h","o","m","e"," ","n","o","w">> ]

StoryIds == DOMAIN stories

\* Bounds of the exploration
MaxCalls == 3       \* advanceStoryWithTranscript calls followed per opened story
MaxInFlight == 4    \* suspended async calls at a time
MaxHowls == 4       \* Howl instances alive at a time
MaxCueInFlight == 1 \* suspended calls at a time while keyword cues are studied
MaxCueHowls == 1    \* sounds alive at a time while keyword cues are studied
MaxTime == 3500     \* milliseconds of clock time followed
MaxRestarts == 2    \* startListening and selectMode calls followed (preloadVersion)
MaxMusicHowls == 2  \* sounds alive when a decision is applied
MaxTimers == 2      \* pending stop timers when another one may be set
MaxMusicTime == 700 \* milliseconds of clock time followed while music is studied
MaxAnalyses == 2    \* analyses in flight across changes of the mode
MaxPreload == 3     \* queries of a preload target that are followed
MaxPrefetch == 1    \* searches of predictivePrefetch in flight when it is called
MaxWindow == 2      \* tasks in flight when a story is opened or read on
MaxResults == 3     \* speech results handled in one run
MaxBackoffTime == 77000  \* milliseconds of clock time followed after a 429
MaxRequests == 12   \* /analyze requests the backend receives in one run
MaxServerTime == 60002  \* milliseconds of clock time the backend is followed for
MaxDuckHowls == 3   \* sounds alive while the ducking of the music is studied
MaxDuckTime == 2400 \* milliseconds of clock time followed while it is studied
MaxListenTime == 1000  \* milliseconds of clock time in which recognition sessions end
MaxPoolTasks == 3   \* task functions handed to runWithConcurrency
MaxFadeTime == 1600  \* milliseconds of clock time followed after music has started
MaxFlowTime == 240  \* milliseconds of clock time followed while a story flow waits

\* Date.now() when the page is constructed: any reading of the wall clock,
\* which is far above every interval of the program
Epoch == 100000


\* ------------------------------------------------------------------------
\* Handlers are written as functions from the state before the call to the
\* state after it, so that a handler can run the handlers it calls.
\* ------------------------------------------------------------------------
World ==
    [app |-> app, howls |-> howls, tasks |-> tasks, timers |-> timers,
     storyLog |-> storyLog, cueLog |-> cueLog, musicLog |-> <<>>, preloadLog |-> <<>>,
     speechLog |-> speechLog]

Commit(w) ==
    /\ app' = w.app
    /\ howls' = w.howls
    /\ tasks' = w.tasks
    /\ timers' = w.timers
    /\ storyLog' = w.storyLog
    /\ cueLog' = w.cueLog
    /\ musicLog' = w.musicLog
    /\ preloadLog' = w.preloadLog
    /\ speechLog' = w.speechLog
    /\ UNCHANGED <<rateLimitMap, served>>

\* the addresses that requests to the backend come from
ClientIps == {"ip1", "ip2"}

\* Map helpers (JavaScript Map as a function with a finite domain)
MapGet(m, k, dflt) == IF k \in DOMAIN m THEN m[k] ELSE dflt
MapSet(m, k, v) == (k :> v) @@ m
EmptyMap == <<>>

\* ------------------------------------------------------------------------
\* SFX cooldown buckets
\* ------------------------------------------------------------------------
Includes(q, sub) ==
    \E p \in 1..(Len(q) - Len(sub) + 1) : SubSeq(q, p, p + Len(sub) - 1) = sub

RECURSIVE JoinWords(_)
JoinWords(ws) ==
    IF ws = <<>> THEN <<>>
    ELSE IF Len(ws) = 1 THEN ws[1]
    ELSE ws[1] \o <<" ">> \o JoinWords(Tail(ws))

\* q.replace(/\s+/g,' ').trim()
CollapseTrim(q) == JoinWords(SplitBlanksFrom(q, 1))

getSfxBucket(query) ==
    LET q == ToLowerCase(query)
    IN  IF Includes(q, <<"d","o","o","r">>) THEN <<"d","o","o","r">>
        ELSE IF Includes(q, <<"f","o","o","t","s","t","e","p">>) THEN <<"f","o","o","t","s","t","e","p","s">>
        ELSE IF Includes(q, <<"w","h","o","o","s","h">>) \/ Includes(q, <<"w","i","n","d">>) THEN <<"w","i","n","d">>
        ELSE IF Includes(q, <<"w","o","l","f">>) /\ Includes(q, <<"h","o","w","l">>) THEN <<"w","o","l","f","-","h","o","w","l">>
        ELSE IF Includes(q, <<"j","i","n","g","l","e">>) \/ Includes(q, <<"b","e","l","l">>) THEN <<"b","e","l","l","s">>
        ELSE IF Includes(q, <<"t","h","u","n","d","e","r">>) THEN <<"t","h","u","n","d","e","r">>
        ELSE IF Includes(q, <<"c","r","e","a","k">>) THEN <<"c","r","e","a","k">>
        ELSE IF Includes(q, <<"k","n","o","c","k">>) THEN <<"k","n","o","c","k">>
        ELSE CollapseTrim(q)

\* ------------------------------------------------------------------------
\* playSoundEffect, up to its first suspension (await searchAudio).  The
\* version of the request is history: the code captures no token here
\* ------------------------------------------------------------------------
playSoundEffect(w, query, origin) ==
    IF ~w.app.sfxEnabled THEN w
    ELSE IF Cardinality(w.app.activeSounds) >= w.app.maxSimultaneousSounds THEN w
    ELSE LET bucket == getSfxBucket(query)
             nextAllowed == MapGet(w.app.sfxCooldowns, bucket, 0)
         IN  IF now < nextAllowed THEN w
             ELSE [w EXCEPT !.tasks = @ (+) SetToBag({
                      [kind |-> "playSoundEffect", query |-> query,
                       bucket |-> bucket, origin |-> origin, at |-> now,
                       version |-> w.app.analysisVersion] })]

\* maybeTriggerStorySfx for the matched words of one scan, in order
RECURSIVE maybeTriggerStorySfx(_, _)
maybeTriggerStorySfx(w, hits) ==
    IF hits = <<>> THEN w
    ELSE LET word == Head(hits)
             w1 == IF w.app.sfxEnabled /\ InCueMap(word)
                   THEN playSoundEffect(w, CueQuery(word), "story")
                   ELSE w
         IN  maybeTriggerStorySfx(w1, Tail(hits))

\* the loop of prefetchStoryWindow (game.js 634-653): a search is started for
\* the query of every cue word of the window not met before in this call,
\* unless the URL of the query is cached; searchAudio (game.js 1907-1943)
\* suspends only when a provider key is set
RECURSIVE WindowScan(_, _, _)
WindowScan(w, windowTokens, seen) ==
    IF windowTokens = <<>> THEN w
    ELSE LET key == Head(windowTokens)
         IN  IF InCueMap(key) /\ key \notin seen
             THEN LET q  == CueQuery(key)
                      w1 == IF q \in w.app.soundCache THEN w
                            ELSE IF ~w.app.pixabayApiKey /\ ~w.app.freesoundApiKey THEN w
                            ELSE [w EXCEPT !.tasks = @ (+) SetToBag({
                                     [kind |-> "prefetch", q |-> q,
                                      token |-> w.app.preloadVersion, stage |-> "search"] })]
                  IN  WindowScan(w1, Tail(windowTokens), seen \cup {key})
             ELSE WindowScan(w, Tail(windowTokens), seen)

\* prefetchStoryWindow (game.js 629-654), up to the suspensions
prefetchStoryWindow(w) ==
    IF ~w.app.sfxEnabled THEN w
    ELSE WindowScan(w, Slice(w.app.storyNorm, w.app.storyIndex, w.app.storyIndex + 80), {})

\* ------------------------------------------------------------------------
\* Story overlay and aligner
\* ------------------------------------------------------------------------
showStoryOverlay(w, storyId) ==
    IF storyId \notin StoryIds THEN w
    ELSE LET tokens == tokenizeStory(stories[storyId])
         IN  prefetchStoryWindow(
                 [w EXCEPT !.app.currentStory = storyId,
                           !.app.storyActive = TRUE,
                           !.app.storyIndex = 0,
                           !.app.storyTokens = tokens,
                           !.app.storyNorm = [k \in 1..Len(tokens) |-> normalizeWord(tokens[k])],
                           !.storyLog = <<>>])

hideStoryOverlay(w) ==
    [w EXCEPT !.app.storyActive = FALSE,
              !.app.currentStory = NoStory,
              !.app.storyTokens = <<>>,
              !.app.storyNorm = <<>>,
              !.storyLog = <<>>]

\* the scan restarted at the first token and its result stored as it is
advanceStoryWithTranscript_rescan(w, text) ==
    IF ~w.app.storyActive \/ text = <<>> THEN w
    ELSE LET spoken == SpokenWords(text)
         IN  IF spoken = <<>> THEN w
             ELSE LET r  == StoryScan(w.app.storyNorm, 0, spoken)
                      w1 == maybeTriggerStorySfx(w, r.hits)
                      w2 == [w1 EXCEPT !.app.storyIndex = r.i]
                  IN  [w2 EXCEPT !.storyLog = Append(@,
                           [spoken |-> spoken, before |-> w.app.storyIndex,
                            after |-> w2.app.storyIndex, jump |-> r.jump])]

advanceStoryWithTranscript(w, text) ==
    IF ~w.app.storyActive \/ text = <<>> THEN w
    ELSE LET spoken == SpokenWords(text)
         IN  IF spoken = <<>> THEN w
             ELSE LET r  == StoryScan(w.app.storyNorm, w.app.storyIndex, spoken)
                      w1 == maybeTriggerStorySfx(w, r.hits)
                      w2 == IF r.i > w.app.storyIndex
                            THEN prefetchStoryWindow([w1 EXCEPT !.app.storyIndex = r.i])
                            ELSE w1
                  IN  [w2 EXCEPT !.storyLog = Append(@,
                           [spoken |-> spoken, before |-> w.app.storyIndex,
                            after |-> w2.app.storyIndex, jump |-> r.jump])]


\* ------------------------------------------------------------------------
\* Instant keywords
\* ------------------------------------------------------------------------
\* this.instantKeywords in Object.entries order: keyword, query, volume * 10
instantKeywords ==
    << <<<<"b","a","n","g">>, <<"g","u","n","s","h","o","t"," ","e","x","p","l","o","s","i","o","n">>, 9>>, <<<<"c","r","a","s","h">>, <<"c","r","a","s","h"," ","m","e","t","a","l">>, 8>>,
       <<<<"b","o","o","m">>, <<"e","x","p","l","o","s","i","o","n"," ","b","o","o","m">>, 9>>, <<<<"t","h","u","n","d","e","r">>, <<"t","h","u","n","d","e","r"," ","s","t","o","r","m">>, 8>>,
       <<<<"s","c","r","e","a","m">>, <<"s","c","r","e","a","m"," ","h","o","r","r","o","r">>, 7>>, <<<<"r","o","a","r">>, <<"m","o","n","s","t","e","r"," ","r","o","a","r">>, 8>>,
       <<<<"g","r","o","w","l">>, <<"m","o","n","s","t","e","r"," ","g","r","o","w","l">>, 8>>, <<<<"s","n","a","r","l">>, <<"m","o","n","s","t","e","r"," ","g","r","o","w","l">>, 8>>,
       <<<<"o","g","r","e">>, <<"m","o","n","s","t","e","r"," ","g","r","o","w","l">>, 8>>, <<<<"t","r","o","l","l">>, <<"m","o","n","s","t","e","r"," ","g","r","o","w","l">>, 8>>,
       <<<<"o","r","c">>, <<"m","o","n","s","t","e","r"," ","g","r","o","w","l">>, 8>>, <<<<"g","o","b","l","i","n">>, <<"m","o","n","s","t","e","r"," ","g","r","o","w","l">>, 8>>,
       <<<<"b","e","a","s","t">>, <<"m","o","n","s","t","e","r"," ","g","r","o","w","l">>, 8>>, <<<<"s","l","a","m">>, <<"d","o","o","r"," ","s","l","a","m">>, 7>>,
       <<<<"s","p","l","a","s","h">>, <<"w","a","t","e","r"," ","s","p","l","a","s","h">>, 6>>, <<<<"w","h","o","o","s","h">>, <<"w","i","n","d"," ","w","h","o","o","s","h">>, 6>>,
       <<<<"t","h","u","d">>, <<"h","e","a","v","y"," ","t","h","u","d">>, 7>>, <<<<"b","a","r","k">>, <<"d","o","g"," ","b","a","r","k">>, 7>>,
       <<<<"w","o","o","f">>, <<"d","o","g"," ","b","a","r","k">>, 7>>, <<<<"m","e","o","w">>, <<"c","a","t"," ","m","e","o","w">>, 6>>,
       <<<<"k","n","o","c","k">>, <<"d","o","o","r"," ","k","n","o","c","k">>, 7>>, <<<<"f","o","o","t","s","t","e","p","s">>, <<"f","o","o","t","s","t","e","p","s">>, 6>>,
       <<<<"f","o","o","t","s","t","e","p">>, <<"f","o","o","t","s","t","e","p","s">>, 6>>, <<<<"c","l","a","p">>, <<"a","p","p","l","a","u","s","e">>, 7>>,
       <<<<"a","p","p","l","a","u","s","e">>, <<"a","p","p","l","a","u","s","e">>, 7>>, <<<<"l","a","u","g","h">>, <<"l","a","u","g","h">>, 7>>,
       <<<<"g","i","g","g","l","e">>, <<"l","a","u","g","h">>, 6>>, <<<<"c","r","e","a","k">>, <<"d","o","o","r"," ","c","r","e","a","k">>, 6>>,
       <<<<"w","h","i","s","p","e","r">>, <<"w","h","i","s","p","e","r"," ","b","r","e","a","t","h">>, 5>>, <<<<"h","e","a","r","t","b","e","a","t">>, <<"h","e","a","r","t","b","e","a","t">>, 6>>,
       <<<<"j","i","n","g","l","e">>, <<"j","i","n","g","l","e"," ","b","e","l","l","s">>, 7>>, <<<<"s","l","e","i","g","h">>, <<"s","l","e","i","g","h"," ","b","e","l","l","s">>, 7>>,
       <<<<"h","o","h","o","h","o">>, <<"s","a","n","t","a"," ","l","a","u","g","h"," ","h","o"," ","h","o">>, 8>>, <<<<"c","a","c","k","l","e">>, <<"w","i","t","c","h"," ","c","a","c","k","l","e"," ","l","a","u","g","h">>, 7>>,
       <<<<"b","o","o">>, <<"g","h","o","s","t"," ","b","o","o">>, 6>>, <<<<"h","o","w","l">>, <<"w","o","l","f"," ","h","o","w","l">>, 7>> >>

\* the keyword found anywhere in the text, inside longer words too
RegexWordTest_substring(keyword, text) ==
    \E p \in 1..(Len(text) - Len(keyword) + 1) :
        \A k \in 1..Len(keyword) :
            ToLowerChar(text[p + k - 1]) = ToLowerChar(keyword[k])

\* new RegExp(`\\b${keyword}\\b`, 'i').test(text): the keyword occurs with a
\* word boundary on both sides (no \w character next to it)
RegexWordTest(keyword, text) ==
    \E p \in 1..(Len(text) - Len(keyword) + 1) :
        /\ (p = 1 \/ ~IsWordChar(text[p - 1]))
        /\ (p + Len(keyword) > Len(text) \/ ~IsWordChar(text[p + Len(keyword)]))
        /\ \A k \in 1..Len(keyword) :
              ToLowerChar(text[p + k - 1]) = ToLowerChar(keyword[k])

\* the loop over the table with every match playing (no break)
RECURSIVE KeywordLoop_nobreak(_, _)
KeywordLoop_nobreak(lowerText, k) ==
    IF k > Len(instantKeywords) THEN <<>>
    ELSE IF RegexWordTest(instantKeywords[k][1], lowerText)
    THEN <<instantKeywords[k]>> \o KeywordLoop_nobreak(lowerText, k + 1)
    ELSE KeywordLoop_nobreak(lowerText, k + 1)

\* the loop of checkInstantKeywords from table entry k on (game.js 1385-1395):
\* the configs handed to playInstantSound, in order
RECURSIVE KeywordLoop(_, _)
KeywordLoop(lowerText, k) ==
    IF k > Len(instantKeywords) THEN <<>>
    ELSE IF RegexWordTest(instantKeywords[k][1], lowerText)
    THEN <<instantKeywords[k]>>
    ELSE KeywordLoop(lowerText, k + 1)

\* playInstantSound for each config of the list
RECURSIVE playInstantSound(_, _)
playInstantSound(w, configs) ==
    IF configs = <<>> THEN w
    ELSE playInstantSound(playSoundEffect(w, Head(configs)[2], "keyword"), Tail(configs))

checkInstantKeywords(w, text) ==
    IF (~w.app.freesoundApiKey /\ ~w.app.pixabayApiKey) \/ text = <<>> \/ ~w.app.sfxEnabled
    THEN w
    ELSE LET cues == KeywordLoop(ToLowerCase(text), 1)
             w1 == playInstantSound(w, cues)
         IN  [w1 EXCEPT !.cueLog = << [text |-> text, cues |-> cues,
                 requests |-> BagCardinality(w1.tasks) - BagCardinality(w.tasks)] >>]

\* ------------------------------------------------------------------------
\* SFX playback
\* ------------------------------------------------------------------------
\* A Howl lives in the registry from new Howl() until unload(); ids are
\* never shared by two live references.
UsedIds(w) ==
    DOMAIN w.howls
      \cup { t.howl : t \in w.timers }
      \cup { s.id : s \in w.app.activeSounds }
      \cup { w.app.currentMusic }

FreshId(w) == CHOOSE id \in 1..(Cardinality(UsedIds(w)) + 1) : id \notin UsedIds(w)

NewHowl(w, id, h) == [w EXCEPT !.howls = (id :> h) @@ @]

\* howl.stop(); howl.unload()
Unload(registry, ids) == [id \in (DOMAIN registry) \ ids |-> registry[id]]

\* playSFXBuffer (game.js 2266-2315): a new Howl is created and started and
\* entered in activeSounds under a fresh id. The volume of the new sound is
\* not part of the state; the ducking of the music that precedes it is
\* duckMusic, joined to it in playSFXBufferDucking.
playSFXBuffer(w, name, bucket, at) ==
    LET id == FreshId(w)
        w1 == NewHowl(w, id, [kind |-> "sfx", name |-> name, bucket |-> bucket, at |-> at])
    IN  [w1 EXCEPT !.app.activeSounds = @ \cup {[id |-> id, startTime |-> now]}]

\* playSoundEffect after searchAudio has answered (game.js 1855-1866)
playSoundEffectResume(w, t, found) ==
    LET w1 == [w EXCEPT !.tasks = @ (-) SetToBag({t})]
    IN  IF found
        THEN LET w2 == playSFXBuffer(w1, t.query, t.bucket, t.at)
             IN  [w2 EXCEPT !.app.sfxCooldowns = MapSet(@, t.bucket, now + w.app.sfxCooldownMs)]
        ELSE w1

\* onloaderror of an SFX Howl (game.js 2282-2285): the error is logged and
\* shown in the status line; a Howl that failed to load plays nothing and
\* never ends
sfxOnLoadError(w, id) ==
    [w EXCEPT !.howls[id].kind = "sfx load error"]

\* onend of an SFX Howl (game.js 2290-2294)
sfxOnEnd(w, id) ==
    [w EXCEPT !.howls = Unload(@, {id}),
              !.app.activeSounds = { s \in @ : s.id # id }]

\* ------------------------------------------------------------------------
\* Music and the decisions of the analysis
\* ------------------------------------------------------------------------
\* this.soundCatalog as loaded from the backend: id, type, and the mood that
\* the tags and the id of the sound carry
soundCatalog ==
    << [id |-> <<"c","a","l","m","_","f","o","r","e","s","t">>, type |-> "music", mood |-> "calm"],
       [id |-> <<"c","a","l","m","_","l","a","k","e">>,   type |-> "music", mood |-> "calm"],
       [id |-> <<"p","e","a","c","e","f","u","l","_","m","e","a","d","o","w">>, type |-> "music", mood |-> "peaceful"],
       [id |-> <<"e","p","i","c","_","b","a","t","t","l","e">>, type |-> "music", mood |-> "epic"],
       [id |-> <<"d","o","o","r","_","c","r","e","a","k">>,  type |-> "sfx",   mood |-> "none"] >>

\* soundCatalog.find(s => s.id === id): the index of the entry, 0 if none
CatalogFind(id) ==
    IF \E k \in 1..Len(soundCatalog) : soundCatalog[k].id = id
    THEN CHOOSE k \in 1..Len(soundCatalog) :
            /\ soundCatalog[k].id = id
            /\ \A j \in 1..(k - 1) : soundCatalog[j].id # id
    ELSE 0

\* the mood of the context of a catalog sound
MoodOf(id) == soundCatalog[CatalogFind(id)].mood

NoMusic == <<>>      \* decisions.music absent or null

InCatalog(x) == CatalogFind(x.id) # 0

\* POST /analyze, the validation of the ids of the decision before it is
\* sent (server/index.js 195-206)
ValidateIds(decision) ==
    [music |-> IF decision.music # NoMusic /\ CatalogFind(decision.music.id) = 0
               THEN NoMusic ELSE decision.music,
     sfx |-> SelectSeq(decision.sfx, InCatalog)]

\* this.currentMusic.dataset?.id: the object stored by playMusicElement is
\* { _howl, name, type, volume } and has no dataset, so this is undefined
Undefined == <<"undefined">>

currentMusicDatasetId(w) == Undefined

\* setTimeout(() => { howl.stop(); howl.unload(); }, ms)
StopLater(w, kind, id, ms) ==
    [w EXCEPT !.timers = @ \cup {[kind |-> kind, howl |-> id, due |-> now + ms]}]

\* scheduleNextStinger (game.js 2862-2873): the timer is (re)armed; it is due
\* 20 to 45 seconds later
scheduleNextStinger(w) ==
    IF ~w.app.sfxEnabled \/ ~w.app.predictionEnabled THEN w
    ELSE [w EXCEPT !.app.stingerTimer = 1]

\* playMusicElement (game.js 2343-2379)
playMusicElement(w, name) ==
    LET oldHowl == w.app.currentMusic
        w1 == IF oldHowl # NoHowl THEN StopLater(w, "stopHowl", oldHowl, 650) ELSE w
        id == FreshId(w1)
        w2 == NewHowl(w1, id, [kind |-> "music", name |-> name, bucket |-> <<>>, at |-> 0])
    IN  [w2 EXCEPT !.app.currentMusic = id]

\* fadeOutAudio (game.js 2381-2400) of a Howl-backed sound
fadeOutAudio(w, audio, ms) ==
    IF audio = NoHowl THEN w ELSE StopLater(w, "stopHowl", audio, ms + 50)

\* updateMusicById, were it to keep whatever music plays
updateMusicById_keepsPlaying(w, musicData) ==
    IF ~w.app.musicEnabled THEN w
    ELSE IF CatalogFind(musicData.id) = 0 THEN w
    ELSE IF w.app.currentMusic # NoHowl THEN w
    ELSE LET sound == soundCatalog[CatalogFind(musicData.id)]
         IN  scheduleNextStinger(playMusicElement(w, sound.id))

\* updateMusicById (game.js 1698-1744)
updateMusicById(w, musicData) ==
    IF ~w.app.musicEnabled THEN w
    ELSE IF CatalogFind(musicData.id) = 0 THEN w
    ELSE IF /\ musicData.action = "play_or_continue"
            /\ w.app.currentMusic # NoHowl
            /\ currentMusicDatasetId(w) = musicData.id
    THEN w
    ELSE LET sound == soundCatalog[CatalogFind(musicData.id)]
         IN  scheduleNextStinger(playMusicElement(w, sound.id))

\* playSoundEffectById, were it to skip the lookup in the catalog
playSoundEffectById_nolookup(w, sfxData) ==
    IF ~w.app.sfxEnabled THEN w
    ELSE IF Cardinality(w.app.activeSounds) >= w.app.maxSimultaneousSounds THEN w
    ELSE LET bucket == getSfxBucket(sfxData.id)
             nextAllowed == MapGet(w.app.sfxCooldowns, bucket, 0)
         IN  IF now < nextAllowed THEN w
             ELSE LET w1 == playSFXBuffer(w, sfxData.id, bucket, now)
                  IN  [w1 EXCEPT !.app.sfxCooldowns =
                                     MapSet(@, bucket, now + w.app.sfxCooldownMs)]

\* playSoundEffectById (game.js 1782-1833)
playSoundEffectById(w, sfxData) ==
    IF ~w.app.sfxEnabled THEN w
    ELSE IF Cardinality(w.app.activeSounds) >= w.app.maxSimultaneousSounds THEN w
    ELSE IF CatalogFind(sfxData.id) = 0 THEN w
    ELSE LET bucket == getSfxBucket(sfxData.id)
             nextAllowed == MapGet(w.app.sfxCooldowns, bucket, 0)
         IN  IF now < nextAllowed THEN w
             ELSE LET w1 == playSFXBuffer(w, sfxData.id, bucket, now)
                  IN  [w1 EXCEPT !.app.sfxCooldowns =
                                     MapSet(@, bucket, now + w.app.sfxCooldownMs)]

RECURSIVE PlayDecisionSfx(_, _)
PlayDecisionSfx(w, sfx) ==
    IF sfx = <<>> THEN w
    ELSE PlayDecisionSfx(playSoundEffectById(w, Head(sfx)), Tail(sfx))

\* processSoundDecisions, were a music request for an unknown id to end
\* the music
processSoundDecisions_regress(w, decisions) ==
    IF ~w.app.predictionEnabled THEN w
    ELSE LET old == { s \in w.app.activeSounds : now - s.startTime > 2000 }
             w1 == [w EXCEPT !.timers = @ \cup
                        { [kind |-> "stopSfx", howl |-> s.id, due |-> now + 350] : s \in old }]
             w2 == IF w1.app.musicEnabled /\ decisions.music # NoMusic
                   THEN IF CatalogFind(decisions.music.id) = 0
                        THEN [w1 EXCEPT !.app.currentMusic = NoHowl]
                        ELSE updateMusicById(w1, decisions.music)
                   ELSE w1
         IN  IF w2.app.sfxEnabled /\ Len(decisions.sfx) > 0
             THEN PlayDecisionSfx(w2, decisions.sfx)
             ELSE w2

\* processSoundDecisions (game.js 1657-1696)
processSoundDecisions(w, decisions) ==
    IF ~w.app.predictionEnabled THEN w
    ELSE LET old == { s \in w.app.activeSounds : now - s.startTime > 2000 }
             w1 == [w EXCEPT !.timers = @ \cup
                        { [kind |-> "stopSfx", howl |-> s.id, due |-> now + 350] : s \in old }]
             w2 == IF w1.app.musicEnabled /\ decisions.music # NoMusic
                   THEN updateMusicById(w1, decisions.music)
                   ELSE w1
         IN  IF w2.app.sfxEnabled /\ Len(decisions.sfx) > 0
             THEN PlayDecisionSfx(w2, decisions.sfx)
             ELSE w2

\* the back-off after a 429 of the backend, in milliseconds
backendCooldownMs == 60000

\* analyzeTranscript, were the cooldown not looked at
analyzeTranscriptRoute_always(w) == "backend"

\* analyzeTranscript up to its first suspension (start-server.ps1 219-230):
\* the request goes to the backend, or during the cooldown to the model
\* asked from the client
analyzeTranscriptRoute(w) ==
    IF now < w.app.backendCooldownUntil THEN "client" ELSE "backend"

\* analyzeContext up to its suspension in callBackendAnalyze (game.js 1404-1414)
analyzeContext(w, transcript) ==
    IF CollapseTrim(transcript) = <<>>
    THEN [w EXCEPT !.app.analysisInProgress = FALSE]
    ELSE [w EXCEPT !.tasks = @ (+) SetToBag({
             [kind |-> "analyzeContext", version |-> w.app.analysisVersion,
              route |-> analyzeTranscriptRoute(w)] })]

\* maybeAnalyzeLive (game.js 1522-1539)
maybeAnalyzeLive(w, contextText) ==
    IF ~w.app.predictionEnabled THEN w
    ELSE IF w.app.analysisInProgress THEN w
    ELSE IF now - w.app.lastAnalysisTime < w.app.analysisInterval THEN w
    ELSE IF Len(contextText) < 8 THEN w
    ELSE analyzeContext([w EXCEPT !.app.lastAnalysisTime = now,
                                  !.app.analysisInProgress = TRUE], contextText)

NoResponse == <<>>   \* the backend gave no decisions

\* analyzeTranscript (api.js): the decision of the backend, or after a
\* failure of the backend the decision of the model asked from the client,
\* which nothing validates, or an error
analyzeTranscript(raw, route) ==
    IF route = "backend" THEN ValidateIds(raw)
    ELSE IF route = "client" THEN raw
    ELSE NoResponse

\* analyzeContextResume, were it to apply an answer of any version
analyzeContextResume_anyVersion(w, t, response) ==
    LET w1 == [w EXCEPT !.tasks = @ (-) SetToBag({t})]
        w2 == IF response = NoResponse THEN w1
              ELSE processSoundDecisions(w1, response)
    IN  [w2 EXCEPT !.app.analysisInProgress = FALSE]

\* analyzeContext after the backend has answered (game.js 1416-1428), and the
\* finally of maybeAnalyzeLive (game.js 1536-1538)
analyzeContextResume(w, t, response) ==
    LET w1 == [w EXCEPT !.tasks = @ (-) SetToBag({t})]
        w2 == IF w1.app.analysisVersion # t.version THEN w1
              ELSE IF response = NoResponse THEN w1
              ELSE processSoundDecisions(w1, response)
    IN  [w2 EXCEPT !.app.analysisInProgress = FALSE]

\* the backend answers the fetch of analyzeTranscript (start-server.ps1
\* 232-248): a decision is returned; after a 429 the cooldown starts; after
\* a 429 or another failure the model is asked from the client
backendResume(w, t, outcome, raw) ==
    IF outcome = "ok" THEN analyzeContextResume(w, t, ValidateIds(raw))
    ELSE LET w1 == [w EXCEPT !.tasks = (@ (-) SetToBag({t}))
                                          (+) SetToBag({[t EXCEPT !.route = "client"]})]
         IN  IF outcome = "429"
             THEN [w1 EXCEPT !.app.backendCooldownUntil = now + backendCooldownMs]
             ELSE w1

\* stopAllAudio (game.js 1452-1520): Howler.stop() and the unloading of
\* every Howl silence all sounds, tracked or not
stopAllAudio(w) ==
    [w EXCEPT !.app.stingerTimer = NoTimer,
              !.app.currentMusic = NoHowl,
              !.app.activeSounds = {},
              !.howls = <<>>]

\* stopListening (game.js 2656-2725): currentMusic and the active sounds
\* are Howl-backed objects without pause or source, so they are forgotten
\* and not stopped
stopListening(w) ==
    [w EXCEPT !.app.isListening = FALSE,
              !.app.currentInterim = <<>>,
              !.app.analysisTimer = NoTimer,
              !.app.currentMusic = NoHowl,
              !.app.activeSounds = {}]

\* startListening (game.js 2582-2654) with an API key and a recognition
\* object; outcome is what recognition.start() does
startListening(w, outcome) ==
    LET w1 == [w EXCEPT !.app.isListening = TRUE]
        w2 == IF outcome = "started"
              THEN [w1 EXCEPT !.app.lastAnalysisTime = 0,
                              !.app.analysisTimer =
                                  IF w.app.predictionEnabled THEN 1 ELSE NoTimer]
              ELSE IF outcome = "already started" THEN w1
              ELSE stopListening([w1 EXCEPT !.app.isListening = FALSE])
    IN  [w2 EXCEPT !.app.preloadVersion = @ + 1,
                   !.app.preloadTimers = @ \cup {w2.app.preloadVersion + 1}]

\* selectMode (game.js 1170-1213)
selectMode(w, mode) ==
    LET w1 == [w EXCEPT !.app.currentMode = mode,
                        !.app.analysisVersion = @ + 1,
                        !.app.lastAnalysisTime = 0,
                        !.app.analysisInProgress = FALSE,
                        !.app.transcriptBuffer = <<>>,
                        !.app.currentInterim = <<>>,
                        !.app.soundCache = {}]
        w2 == stopAllAudio(w1)
    IN  [w2 EXCEPT !.app.preloadVersion = @ + 1,
                   !.app.preloadTimers = @ \cup {w2.app.preloadVersion + 1}]

\* ------------------------------------------------------------------------
\* Preloading of the sound effects of the mode, and predictive prefetch
\* ------------------------------------------------------------------------
\* this.modePreloadSets[mode] (game.js 234-271); the modes the model enters
modePreloadSets(mode) ==
    IF mode = "bedtime" THEN
        << <<"d","o","g"," ","b","a","r","k">>, <<"c","a","t"," ","m","e","o","w">>, <<"d","o","o","r"," ","k","n","o","c","k">>, <<"r","a","i","n">>,
           <<"w","i","n","d"," ","w","h","o","o","s","h">>, <<"f","i","r","e"," ","c","r","a","c","k","l","i","n","g">>, <<"o","w","l"," ","h","o","o","t">>, <<"c","r","i","c","k","e","t","s">>,
           <<"s","o","f","t"," ","f","o","o","t","s","t","e","p","s">>, <<"p","a","g","e"," ","t","u","r","n">>, <<"b","l","a","n","k","e","t"," ","r","u","s","t","l","e">>, <<"w","o","o","d"," ","c","r","e","a","k">>,
           <<"c","l","o","c","k"," ","t","i","c","k">>, <<"d","i","s","t","a","n","t"," ","t","h","u","n","d","e","r">>, <<"w","a","t","e","r"," ","d","r","i","p">>, <<"b","i","r","d"," ","c","h","i","r","p">>,
           <<"l","u","l","l","a","b","y"," ","c","h","i","m","e">>, <<"t","o","y"," ","b","e","l","l">>, <<"p","i","a","n","o"," ","s","o","f","t">>, <<"h","e","a","r","t","b","e","a","t"," ","s","o","f","t">> >>
    ELSE IF mode = "dnd" THEN
        << <<"s","w","o","r","d"," ","c","l","a","s","h">>, <<"a","r","r","o","w"," ","s","h","o","t">>, <<"m","o","n","s","t","e","r"," ","r","o","a","r">>, <<"f","o","o","t","s","t","e","p","s">>,
           <<"d","o","o","r"," ","c","r","e","a","k">>, <<"t","h","u","n","d","e","r">>, <<"c","o","i","n"," ","j","i","n","g","l","e">>, <<"s","p","e","l","l"," ","c","a","s","t">>,
           <<"m","a","g","i","c"," ","w","h","o","o","s","h">>, <<"s","h","i","e","l","d"," ","b","l","o","c","k">>, <<"t","o","r","c","h"," ","c","r","a","c","k","l","e">>, <<"c","r","o","w","d"," ","t","a","v","e","r","n">>,
           <<"h","o","r","s","e"," ","g","a","l","l","o","p">>, <<"g","a","t","e"," ","o","p","e","n">>, <<"d","r","a","g","o","n"," ","r","o","a","r">>, <<"b","o","w"," ","t","w","a","n","g">>,
           <<"b","o","o","k"," ","p","a","g","e"," ","t","u","r","n">>, <<"c","h","a","i","n"," ","r","a","t","t","l","e">>, <<"d","o","o","r"," ","s","l","a","m">>, <<"w","i","n","d"," ","c","a","v","e">> >>
    ELSE IF mode = "horror" THEN
        << <<"d","o","o","r"," ","c","r","e","a","k">>, <<"w","h","i","s","p","e","r">>, <<"h","e","a","r","t","b","e","a","t">>, <<"w","i","n","d"," ","w","h","o","o","s","h">>,
           <<"g","h","o","s","t"," ","b","o","o">>, <<"w","i","t","c","h"," ","c","a","c","k","l","e">>, <<"c","h","a","i","n"," ","d","r","a","g">>, <<"f","o","o","t","s","t","e","p","s"," ","h","a","l","l","w","a","y">>,
           <<"b","r","e","a","t","h"," ","h","e","a","v","y">>, <<"t","h","u","n","d","e","r"," ","d","i","s","t","a","n","t">>, <<"s","c","r","e","a","m"," ","f","a","r">>, <<"f","l","o","o","r","b","o","a","r","d"," ","c","r","e","a","k">>,
           <<"o","w","l"," ","h","o","o","t">>, <<"m","e","t","a","l"," ","s","c","r","a","p","e">>, <<"w","a","t","e","r"," ","d","r","i","p">>, <<"c","l","o","c","k"," ","t","i","c","k">>,
           <<"r","a","d","i","o"," ","s","t","a","t","i","c">>, <<"c","r","o","w"," ","c","a","w">>, <<"c","a","t"," ","h","i","s","s">>, <<"w","o","l","f"," ","h","o","w","l">> >>
    ELSE
        << <<"d","o","g"," ","b","a","r","k">>, <<"d","o","o","r"," ","k","n","o","c","k">>, <<"f","o","o","t","s","t","e","p","s">>, <<"t","h","u","n","d","e","r">>,
           <<"f","i","r","e"," ","c","r","a","c","k","l","i","n","g">>, <<"w","i","n","d"," ","w","h","o","o","s","h">>, <<"a","p","p","l","a","u","s","e">>, <<"l","a","u","g","h">>,
           <<"s","c","r","e","a","m">>, <<"m","e","t","a","l"," ","c","r","a","s","h">>, <<"w","a","t","e","r"," ","s","p","l","a","s","h">>, <<"d","o","o","r"," ","s","l","a","m">>,
           <<"h","e","a","r","t","b","e","a","t">>, <<"b","i","r","d"," ","c","h","i","r","p">>, <<"c","a","t"," ","m","e","o","w">>, <<"c","a","r"," ","h","o","r","n">>,
           <<"b","e","l","l"," ","c","h","i","m","e">>, <<"c","r","o","w","d"," ","m","u","r","m","u","r">>, <<"c","o","i","n"," ","j","i","n","g","l","e">>, <<"k","e","y","b","o","a","r","d"," ","t","y","p","i","n","g">> >>

genericPreloadSet ==
    << <<"d","o","g"," ","b","a","r","k">>, <<"d","o","o","r"," ","k","n","o","c","k">>, <<"f","o","o","t","s","t","e","p","s">>, <<"t","h","u","n","d","e","r">>,
       <<"f","i","r","e"," ","c","r","a","c","k","l","i","n","g">>, <<"w","i","n","d"," ","w","h","o","o","s","h">>, <<"a","p","p","l","a","u","s","e">>, <<"l","a","u","g","h">>,
       <<"s","c","r","e","a","m">>, <<"m","e","t","a","l"," ","c","r","a","s","h">>, <<"w","a","t","e","r"," ","s","p","l","a","s","h">>, <<"d","o","o","r"," ","s","l","a","m">>,
       <<"h","e","a","r","t","b","e","a","t">>, <<"b","i","r","d"," ","c","h","i","r","p">>, <<"c","a","t"," ","m","e","o","w">>, <<"b","e","l","l"," ","c","h","i","m","e">>,
       <<"c","o","i","n"," ","j","i","n","g","l","e">>, <<"c","r","o","w"," ","c","a","w">>, <<"o","w","l"," ","h","o","o","t">>, <<"c","h","a","i","n"," ","r","a","t","t","l","e">> >>

\* [...new Set(seq)]: the first occurrences, in order
RECURSIVE Dedupe(_, _)
Dedupe(seq, seen) ==
    IF seq = <<>> THEN <<>>
    ELSE IF Head(seq) \in seen THEN Dedupe(Tail(seq), seen)
    ELSE <<Head(seq)>> \o Dedupe(Tail(seq), seen \cup {Head(seq)})

PreloadCap == 20

\* [...new Set([...base, ...this.genericPreloadSet])] for the modes the model
\* enters and for the fallback mode
mergedPreloadSets ==
    [ mode \in {"bedtime", "dnd", "horror", "auto"} |->
          Dedupe(modePreloadSets(mode) \o genericPreloadSet, {}) ]

\* merged.slice(0, 20), of which the model follows the first MaxPreload
PreloadTarget(w) ==
    LET merged == IF w.app.currentMode \in DOMAIN mergedPreloadSets
                  THEN mergedPreloadSets[w.app.currentMode]
                  ELSE mergedPreloadSets["auto"]
        n == IF MaxPreload < PreloadCap THEN MaxPreload ELSE PreloadCap
    IN  SubSeq(merged, 1, IF Len(merged) < n THEN Len(merged) ELSE n)

\* getPreloadConcurrency (game.js 2944-2951)
Max2(a, b) == IF a > b THEN a ELSE b

getPreloadConcurrency(w) ==
    LET baseLimit == IF w.app.lowLatencyMode THEN 7 ELSE 4
    IN  IF Includes(w.app.effectiveType, <<"2","g">>) THEN Max2(2, baseLimit - 2)
        ELSE IF Includes(w.app.effectiveType, <<"3","g">>) THEN Max2(3, baseLimit - 1)
        ELSE baseLimit

\* one runner of runWithConcurrency (game.js 2935-2940) takes task functions
\* from the queue until one of them suspends in await searchAudio; a task
\* function returns at once when its token is stale or its sound is ready
RECURSIVE RunnerNext(_, _)
RunnerNext(w, versionToken) ==
    IF w.app.preloadQueue = <<>> THEN w
    ELSE LET q == Head(w.app.preloadQueue)
             w1 == [w EXCEPT !.app.preloadQueue = Tail(@)]
         IN  IF versionToken # w1.app.preloadVersion THEN RunnerNext(w1, versionToken)
             ELSE IF q \in w1.app.soundCache /\ q \in w1.app.activeBuffers
             THEN RunnerNext(w1, versionToken)
             ELSE [w1 EXCEPT !.tasks = @ (+) SetToBag({
                      [kind |-> "preload", q |-> q, token |-> versionToken,
                       stage |-> "search"] })]

RECURSIVE StartRunners(_, _, _)
StartRunners(w, versionToken, n) ==
    IF n = 0 THEN w ELSE StartRunners(RunnerNext(w, versionToken), versionToken, n - 1)

\* the preload tasks that are suspended
PreloadInFlight(w) == { t \in BagToSet(w.tasks) : t.kind = "preload" }

\* Promise.all(runners) resolves once every runner has left its loop: the
\* status is updated and the finally clause runs (game.js 2924-2930)
PreloadSettle(w) ==
    IF w.app.preloadQueue = <<>> /\ PreloadInFlight(w) = {}
    THEN [w EXCEPT !.app.preloadInProgress = FALSE]
    ELSE w

\* preloadSfxForCurrentMode (game.js 2889-2931), up to the first suspension
preloadSfxForCurrentMode(w, versionToken) ==
    IF (~w.app.freesoundApiKey /\ ~w.app.pixabayApiKey) \/ ~w.app.sfxEnabled THEN w
    ELSE IF w.app.preloadInProgress THEN w
    ELSE LET target == PreloadTarget(w)
             limit == getPreloadConcurrency(w)
         IN  IF Len(target) = 0 THEN w
             ELSE PreloadSettle(
                      StartRunners([w EXCEPT !.app.preloadInProgress = TRUE,
                                             !.app.preloadQueue = target],
                                   versionToken,
                                   IF limit < Len(target) THEN limit ELSE Len(target)))

\* the setTimeout callback of startListening and of selectMode
preloadTimerFires(w, versionToken) ==
    preloadSfxForCurrentMode([w EXCEPT !.app.preloadTimers = @ \ {versionToken}],
                             versionToken)

\* preloadResume, were a decoded buffer played at once
preloadResume_plays(w, t, ok) ==
    LET w1 == [w EXCEPT !.tasks = @ (-) SetToBag({t})]
    IN  IF t.stage = "search"
        THEN IF ~ok THEN PreloadSettle(RunnerNext(w1, t.token))
             ELSE LET w2 == [w1 EXCEPT !.app.soundCache = @ \cup {t.q}]
                  IN  IF t.q \in w2.app.activeBuffers
                      THEN PreloadSettle(RunnerNext(w2, t.token))
                      ELSE [w2 EXCEPT !.tasks = @ (+) SetToBag({[t EXCEPT !.stage = "fetch"]})]
        ELSE LET w2 == IF ok
                       THEN playSFXBuffer([w1 EXCEPT !.app.activeBuffers = @ \cup {t.q}],
                                          t.q, getSfxBucket(t.q), now)
                       ELSE w1
             IN  PreloadSettle(RunnerNext(w2, t.token))

\* a task function of the preload after await searchAudio (game.js 2909-2917)
\* and after the fetch and the decoding (game.js 2913-2916); ok is whether
\* the search found a URL, or the decoding succeeded
preloadResume(w, t, ok) ==
    LET w1 == [w EXCEPT !.tasks = @ (-) SetToBag({t})]
    IN  IF t.stage = "search"
        THEN IF ~ok THEN PreloadSettle(RunnerNext(w1, t.token))
             ELSE LET w2 == [w1 EXCEPT !.app.soundCache = @ \cup {t.q}]
                  IN  IF t.q \in w2.app.activeBuffers
                      THEN PreloadSettle(RunnerNext(w2, t.token))
                      ELSE [w2 EXCEPT !.tasks = @ (+) SetToBag({[t EXCEPT !.stage = "fetch"]})]
        ELSE LET w2 == IF ok THEN [w1 EXCEPT !.app.activeBuffers = @ \cup {t.q}] ELSE w1
             IN  PreloadSettle(RunnerNext(w2, t.token))

\* the cues of predictivePrefetch (game.js 2817-2824): the alternatives of
\* each regular expression as <<word, \b before, \b after>>, and its query
predictiveCues ==
    << [k |-> { <<<<"b","a","r","k">>, TRUE, FALSE>>, <<<<"w","o","o","f">>, FALSE, TRUE>> }, q |-> <<"d","o","g"," ","b","a","r","k">>],
       [k |-> { <<<<"k","n","o","c","k">>, TRUE, FALSE>>, <<<<"d","o","o","r">>, FALSE, TRUE>> }, q |-> <<"d","o","o","r"," ","k","n","o","c","k">>],
       [k |-> { <<<<"t","h","u","n","d","e","r">>, TRUE, FALSE>>, <<<<"s","t","o","r","m">>, FALSE, TRUE>> }, q |-> <<"t","h","u","n","d","e","r">>],
       [k |-> { <<<<"f","o","o","t","s","t","e","p">>, TRUE, TRUE>>, <<<<"f","o","o","t","s","t","e","p","s">>, TRUE, TRUE>> }, q |-> <<"f","o","o","t","s","t","e","p","s">>],
       [k |-> { <<<<"c","r","e","a","k">>, TRUE, TRUE>> }, q |-> <<"d","o","o","r"," ","c","r","e","a","k">>],
       [k |-> { <<<<"w","i","n","d">>, TRUE, FALSE>>, <<<<"w","h","o","o","s","h">>, FALSE, TRUE>> }, q |-> <<"w","i","n","d"," ","w","h","o","o","s","h">>] >>

\* c.k.test(t)
CueTest(k, t) ==
    \E alt \in k :
        \E p \in 1..(Len(t) - Len(alt[1]) + 1) :
            /\ SubSeq(t, p, p + Len(alt[1]) - 1) = alt[1]
            /\ alt[2] => (p = 1 \/ ~IsWordChar(t[p - 1]))
            /\ alt[3] => (p + Len(alt[1]) > Len(t) \/ ~IsWordChar(t[p + Len(alt[1])]))

\* toWarm.forEach (game.js 2826-2837): a search is started for every query
\* without a cached URL
RECURSIVE WarmAll(_, _)
WarmAll(w, toWarm) ==
    IF toWarm = <<>> THEN w
    ELSE LET q == Head(toWarm)
             w1 == IF q \in w.app.soundCache THEN w
                   ELSE [w EXCEPT !.tasks = @ (+) SetToBag({
                            [kind |-> "prefetch", q |-> q, token |-> w.app.preloadVersion,
                             stage |-> "search"] })]
         IN  WarmAll(w1, Tail(toWarm))

\* predictivePrefetch (game.js 2812-2838), up to the suspensions
predictivePrefetch(w, text) ==
    IF ~w.app.freesoundApiKey \/ ~w.app.sfxEnabled \/ ~w.app.predictionEnabled THEN w
    ELSE IF w.app.predictiveBusy THEN w
    ELSE LET t == ToLowerCase(text)
             hits == SelectSeq(predictiveCues, LAMBDA c : CueTest(c.k, t))
             toWarm == [i \in 1..(IF Len(hits) < 2 THEN Len(hits) ELSE 2) |-> hits[i].q]
         IN  WarmAll([w EXCEPT !.app.predictiveBusy = TRUE], toWarm)

\* a search or a fetch of predictivePrefetch answers (game.js 2829-2835)
prefetchResume(w, t, ok) ==
    LET w1 == [w EXCEPT !.tasks = @ (-) SetToBag({t})]
    IN  IF t.stage = "search"
        THEN IF ~ok THEN w1
             ELSE LET w2 == [w1 EXCEPT !.app.soundCache = @ \cup {t.q}]
                  IN  IF t.q \in w2.app.activeBuffers THEN w2
                      ELSE [w2 EXCEPT !.tasks = @ (+) SetToBag({[t EXCEPT !.stage = "fetch"]})]
        ELSE IF ok THEN [w1 EXCEPT !.app.activeBuffers = @ \cup {t.q}] ELSE w1


\* ------------------------------------------------------------------------
\* Speech results
\* ------------------------------------------------------------------------
\* String.prototype.trim
RECURSIVE Trim(_)
Trim(s) ==
    IF s = <<>> THEN s
    ELSE IF IsSpace(Head(s)) THEN Trim(Tail(s))
    ELSE IF IsSpace(s[Len(s)]) THEN Trim(SubSeq(s, 1, Len(s) - 1))
    ELSE s

\* the test of a regular expression /\b(a|b|...)\b/ on t
VoiceTest(phrases, t) == CueTest({ <<p, TRUE, TRUE>> : p \in phrases }, t)

VoiceModes == { <<"h","o","r","r","o","r">>, <<"c","h","r","i","s","t","m","a","s">>, <<"h","a","l","l","o","w","e","e","n">>, <<"d","n","d">>, <<"b","e","d","t","i","m","e">>,
                <<"s","i","n","g">>, <<"a","u","t","o">> }

\* the mode names as selectMode takes them
ModeName(m) ==
    IF m = <<"h","o","r","r","o","r">> THEN "horror" ELSE IF m = <<"c","h","r","i","s","t","m","a","s">> THEN "christmas"
    ELSE IF m = <<"h","a","l","l","o","w","e","e","n">> THEN "halloween" ELSE IF m = <<"d","n","d">> THEN "dnd"
    ELSE IF m = <<"b","e","d","t","i","m","e">> THEN "bedtime" ELSE IF m = <<"s","i","n","g">> THEN "sing"
    ELSE "auto"

\* whether /\bswitch to (mode)\b/ matches t at position p
SwitchAt(t, p, m) ==
    LET lit == <<"s","w","i","t","c","h"," ","t","o"," ">> \o m
    IN  /\ p + Len(lit) - 1 <= Len(t)
        /\ SubSeq(t, p, p + Len(lit) - 1) = lit
        /\ (p = 1 \/ ~IsWordChar(t[p - 1]))
        /\ (p + Len(lit) > Len(t) \/ ~IsWordChar(t[p + Len(lit)]))

\* t.match(/\bswitch to (horror|...|auto)\b/): the mode of the leftmost
\* match, or <<>>
ModeMatch(t) ==
    LET hits == { p \in 1..Len(t) : \E m \in VoiceModes : SwitchAt(t, p, m) }
    IN  IF hits = {} THEN <<>>
        ELSE LET p == CHOOSE x \in hits : \A y \in hits : x <= y
             IN  CHOOSE m \in VoiceModes : SwitchAt(t, p, m)

\* one if statement of handleVoiceCommands: the effect when the regular
\* expression matches
VoiceStep(w, phrases, t, Effect(_)) ==
    IF VoiceTest(phrases, t) THEN Effect(w) ELSE w

\* the last statement of handleVoiceCommands: selectMode when a mode is named
VoiceSwitch(w, t) ==
    IF ModeMatch(t) # <<>> THEN selectMode(w, ModeName(ModeMatch(t))) ELSE w

\* handleVoiceCommands (game.js 2765-2809); musicLevel is kept in tenths
handleVoiceCommands(w, text) ==
    LET t  == ToLowerCase(text)
        w1 == VoiceStep(w, { <<"s","k","i","p"," ","t","r","a","c","k">>, <<"s","k","i","p"," ","s","o","n","g">>, <<"s","k","i","p"," ","m","u","s","i","c">>,
                             <<"n","e","x","t"," ","t","r","a","c","k">>, <<"n","e","x","t"," ","s","o","n","g">>, <<"n","e","x","t"," ","m","u","s","i","c">> }, t,
                        LAMBDA v : fadeOutAudio(v, v.app.currentMusic, 300))
        w2 == VoiceStep(w1, { <<"q","u","i","e","t","e","r"," ","m","u","s","i","c">>, <<"t","u","r","n"," ","m","u","s","i","c"," ","d","o","w","n">>,
                              <<"t","u","r","n"," ","t","h","e"," ","m","u","s","i","c"," ","d","o","w","n">> }, t,
                        LAMBDA v : [v EXCEPT !.app.musicLevel = IF @ > 0 THEN @ - 1 ELSE 0])
        w3 == VoiceStep(w2, { <<"l","o","u","d","e","r"," ","m","u","s","i","c">>, <<"t","u","r","n"," ","m","u","s","i","c"," ","u","p">>,
                              <<"t","u","r","n"," ","t","h","e"," ","m","u","s","i","c"," ","u","p">> }, t,
                        LAMBDA v : [v EXCEPT !.app.musicLevel = IF @ < 10 THEN @ + 1 ELSE 10])
        w4 == VoiceStep(w3, { <<"m","u","t","e"," ","s","f","x">>, <<"m","u","t","e"," ","s","o","u","n","d"," ","e","f","f","e","c","t","s">> }, t,
                        LAMBDA v : [v EXCEPT !.app.sfxEnabled = FALSE])
        w5 == VoiceStep(w4, { <<"u","n","m","u","t","e"," ","s","f","x">>, <<"u","n","m","u","t","e"," ","s","o","u","n","d"," ","e","f","f","e","c","t","s">> }, t,
                        LAMBDA v : [v EXCEPT !.app.sfxEnabled = TRUE])
        w6 == VoiceStep(w5, { <<"m","u","t","e"," ","m","u","s","i","c">> }, t,
                        LAMBDA v : fadeOutAudio([v EXCEPT !.app.musicEnabled = FALSE],
                                                v.app.currentMusic, 250))
        w7 == VoiceStep(w6, { <<"u","n","m","u","t","e"," ","m","u","s","i","c">> }, t,
                        LAMBDA v : [v EXCEPT !.app.musicEnabled = TRUE])
    IN  VoiceSwitch(w7, t)

\* the loop over event.results (game.js 1306-1313): the final and the
\* interim transcript of the event
RECURSIVE FinalTranscript(_)
FinalTranscript(results) ==
    IF results = <<>> THEN <<>>
    ELSE (IF Head(results).isFinal THEN Head(results).transcript \o <<" ">> ELSE <<>>)
             \o FinalTranscript(Tail(results))

RECURSIVE InterimTranscript(_)
InterimTranscript(results) ==
    IF results = <<>> THEN <<>>
    ELSE (IF Head(results).isFinal THEN <<>> ELSE Head(results).transcript)
             \o InterimTranscript(Tail(results))

BufferCap == 50

\* contextText of maybeAnalyzeLive (game.js 1527-1530)
LiveContext(w) ==
    LET recent == JoinWords(Slice(w.app.transcriptBuffer,
                                  Max2(0, Len(w.app.transcriptBuffer) - 10),
                                  Len(w.app.transcriptBuffer)))
        parts  == SelectSeq(<<recent, w.app.currentInterim>>, LAMBDA x : x # <<>>)
    IN  Trim(JoinWords(parts))

\* maybeAnalyzeLive with the context it builds
maybeAnalyzeLiveNow(w) == maybeAnalyzeLive(w, LiveContext(w))

\* transcriptBuffer.shift() when the buffer is over its capacity
ShiftOver(w) ==
    IF Len(w.app.transcriptBuffer) > BufferCap
    THEN [w EXCEPT !.app.transcriptBuffer = Tail(@)]
    ELSE w

\* the branch of handleSpeechResult for an interim transcript (game.js
\* 1333-1344); the statements run from w1, the innermost, outwards
handleInterim(w, interimTranscript) ==
    CHOOSE w5 \in
        { maybeAnalyzeLiveNow(w4) :
          w4 \in { predictivePrefetch(w3, interimTranscript) :
          w3 \in { checkInstantKeywords(w2, interimTranscript) :
          w2 \in { advanceStoryWithTranscript(w1, interimTranscript) :
          w1 \in { [w EXCEPT !.app.currentInterim = Trim(interimTranscript)] } } } } } :
        TRUE

\* the branch of handleSpeechResult for a final transcript (game.js
\* 1315-1332), were the buffer never shortened
handleFinal_keepsAll(w, finalTranscript) ==
    CHOOSE w5 \in
        { maybeAnalyzeLiveNow(w4) :
          w4 \in { checkInstantKeywords(w3, finalTranscript) :
          w3 \in { handleVoiceCommands(w2, finalTranscript) :
          w2 \in { advanceStoryWithTranscript(w1, finalTranscript) :
          w1 \in { [w EXCEPT !.app.transcriptBuffer = Append(@, Trim(finalTranscript)),
                             !.app.currentInterim = <<>>] } } } } } :
        TRUE

\* the branch of handleSpeechResult for a final transcript (game.js
\* 1315-1332); the statements run from w1, the innermost, outwards
handleFinal(w, finalTranscript) ==
    CHOOSE w6 \in
        { maybeAnalyzeLiveNow(w5) :
          w5 \in { ShiftOver(w4) :
          w4 \in { checkInstantKeywords(w3, finalTranscript) :
          w3 \in { handleVoiceCommands(w2, finalTranscript) :
          w2 \in { advanceStoryWithTranscript(w1, finalTranscript) :
          w1 \in { [w EXCEPT !.app.transcriptBuffer = Append(@, Trim(finalTranscript)),
                             !.app.currentInterim = <<>>] } } } } } } :
        TRUE

\* handleSpeechResult (game.js 1302-1346); results are event.results from
\* event.resultIndex on
handleSpeechResult(w, results) ==
    LET finalTranscript   == FinalTranscript(results)
        interimTranscript == InterimTranscript(results)
    IN  IF finalTranscript # <<>>
        THEN handleFinal(w, finalTranscript)
        ELSE IF interimTranscript # <<>>
        THEN handleInterim(w, interimTranscript)
        ELSE w


\* ------------------------------------------------------------------------
\* Ducking of the music under a sound effect
\* ------------------------------------------------------------------------
\* volumes are in 1/100000 of full volume, times in milliseconds, the mood
\* in percent
FullVolume == 100000

\* this.duckParams (game.js 227)
duckParams == [attack |-> 50, hold |-> 150, release |-> 350, floor |-> 25000]

\* getDuckParams (game.js 2237-2246)
getDuckParams(w) ==
    [attack  |-> duckParams.attack,
     hold    |-> duckParams.hold,
     release |-> duckParams.release + w.app.moodBias,
     floor   |-> (duckParams.floor * (80 + ((100 - w.app.moodBias) * 40) \div 100)) \div 100]

\* howl.fade(from, to, ms): the volume the Howl is brought to, in place of
\* a fade of it that was under way; a Howl that has been unloaded takes no
\* volume
Fade(w, id, to) ==
    IF id \in DOMAIN w.howls /\ "volume" \in DOMAIN w.howls[id]
    THEN [w EXCEPT !.howls[id].volume = to,
                   !.timers = { t \in @ : ~(t.kind = "fade" /\ t.howl = id) }]
    ELSE w

\* the envelope that duckMusic starts (game.js 2219-2234)
DuckEnvelope(w, duration) ==
    LET p          == getDuckParams(w)
        howl       == w.app.currentMusic
        currentVol == w.howls[howl].volume
        floorMul   == Max2(8000, IF p.floor < FullVolume THEN p.floor ELSE FullVolume)
        duckTo     == Max2(1000, (currentVol * floorMul) \div FullVolume)
        w1         == Fade([w EXCEPT !.app.duckingInProgress = TRUE], howl, duckTo)
    IN  [w1 EXCEPT !.timers = @ \cup
            { [kind |-> "duckRelease", howl |-> howl, due |-> now + p.attack + p.hold + duration,
               duckTo |-> duckTo, currentVol |-> currentVol, release |-> p.release] }]

\* duckMusic, were an envelope in progress not looked at
duckMusic_reenters(w, duration) ==
    IF w.app.currentMusic = NoHowl \/ w.app.currentMusic \notin DOMAIN w.howls THEN w
    ELSE DuckEnvelope(w, duration)

\* duckMusic (game.js 2215-2235)
duckMusic(w, duration) ==
    IF w.app.duckingInProgress THEN w
    ELSE IF w.app.currentMusic = NoHowl \/ w.app.currentMusic \notin DOMAIN w.howls THEN w
    ELSE DuckEnvelope(w, duration)

\* the timers of duckMusic (game.js 2231-2234): the music is faded back and,
\* when the release is over, the envelope ends
duckTimerFires(w, t) ==
    LET w1 == [w EXCEPT !.timers = @ \ {t}]
    IN  IF t.kind = "duckRelease"
        THEN [Fade(w1, t.howl, t.currentVol) EXCEPT !.timers = @ \cup
                 { [kind |-> "duckEnd", howl |-> NoHowl, due |-> now + t.release] }]
        ELSE [w1 EXCEPT !.app.duckingInProgress = FALSE]

\* playSFXBuffer with the ducking it starts with (game.js 2266-2315)
playSFXBufferDucking(w, name, bucket, at) ==
    CHOOSE w2 \in { playSFXBuffer(w1, name, bucket, at) : w1 \in { duckMusic(w, 600) } } : TRUE

\* ------------------------------------------------------------------------
\* The speech recognition session
\* ------------------------------------------------------------------------
\* app.recognition is the state of this.recognition: "active" from a
\* start() that succeeded until the end event, "idle" otherwise; start()
\* on an active session throws, stop() ends the session later

\* startListening (game.js 2582-2654) with recognition.start() (2621)
startListeningSession(w, outcome) ==
    [startListening(w, outcome) EXCEPT
        !.app.recognition = IF outcome = "started" THEN "active" ELSE @]

\* recognition.onend (game.js 1264-1277): the session is over; while
\* listening a restart is set 100 ms ahead
recognitionOnEnd(w) ==
    IF w.app.isListening
    THEN [w EXCEPT !.app.recognition = "idle",
                   !.timers = @ \cup {[kind |-> "restartRecognition", howl |-> NoHowl,
                                       due |-> now + 100]}]
    ELSE [w EXCEPT !.app.recognition = "idle"]

\* the restart timer, were it not to look at isListening again
restartTimerFires_unchecked(w, t) ==
    LET w1 == [w EXCEPT !.timers = @ \ {t}]
    IN  IF w.app.recognition = "idle" THEN [w1 EXCEPT !.app.recognition = "active"] ELSE w1

\* the restart timer (game.js 1267-1275): start() is called while listening;
\* on a session that is active it throws and the restart is skipped
restartTimerFires(w, t) ==
    LET w1 == [w EXCEPT !.timers = @ \ {t}]
    IN  IF ~w.app.isListening THEN w1
        ELSE IF w.app.recognition = "idle" THEN [w1 EXCEPT !.app.recognition = "active"]
        ELSE w1

\* handleSpeechError, were a network error to end the session too
handleSpeechError_stopsOnNetwork(w, error) ==
    IF error \in {"audio-capture", "not-allowed", "network"} THEN stopListening(w) ELSE w

\* handleSpeechError (game.js 1348-1368): updateStatus only writes the
\* status line
handleSpeechError(w, error) ==
    IF error = "no-speech" THEN w
    ELSE IF error = "audio-capture" THEN stopListening(w)
    ELSE IF error = "not-allowed" THEN stopListening(w)
    ELSE IF error = "network" THEN w
    ELSE w

\* ------------------------------------------------------------------------
\* runWithConcurrency (game.js 2933-2942)
\* ------------------------------------------------------------------------
\* a task function is [id, sync]: called, it returns a promise that is
\* fulfilled or rejected already ("returns", "throws") or pending
\* ("awaits"). A runner suspends at `await fn()` in either case; the promise
\* it awaits is a task of kind "poolTask".

\* fn = queue.shift(); await fn()
PoolCall(w) ==
    LET fn == Head(w.app.pool.queue)
        state == IF fn.sync = "awaits" THEN "pending"
                 ELSE IF fn.sync = "returns" THEN "fulfilled" ELSE "rejected"
    IN  [w EXCEPT !.app.pool.queue = Tail(@),
                  !.app.pool.started = Append(@, fn.id),
                  !.app.pool.finished = IF state = "pending" THEN @ ELSE Append(@, fn.id),
                  !.tasks = @ (+) SetToBag({[kind |-> "poolTask", fn |-> fn.id, state |-> state]})]

\* a runner enters its loop (game.js 2935-2936)
PoolRunner(w) ==
    IF w.app.pool.queue = <<>> THEN w
    ELSE [PoolCall(w) EXCEPT !.app.pool.runners = @ + 1]

RECURSIVE PoolRunners(_, _)
PoolRunners(w, n) == IF n = 0 THEN w ELSE PoolRunners(PoolRunner(w), n - 1)

\* Promise.all(runners) resolves when every runner has left its loop
PoolSettle(w) ==
    IF w.app.pool.runners = 0 THEN [w EXCEPT !.app.pool.resolved = TRUE] ELSE w

\* runWithConcurrency up to its await (game.js 2933-2941)
runWithConcurrency(w, taskFns, limit) ==
    LET w1 == [w EXCEPT !.app.pool = [queue |-> taskFns, runners |-> 0, resolved |-> FALSE,
                                      limit |-> limit, size |-> Len(taskFns),
                                      started |-> <<>>, finished |-> <<>>]]
    IN  PoolSettle(PoolRunners(w1, Min(limit, Len(taskFns))))

\* the promise of a task function is settled
poolTaskSettles(w, t, state) ==
    [w EXCEPT !.tasks = (@ (-) SetToBag({t})) (+) SetToBag({[t EXCEPT !.state = state]}),
              !.app.pool.finished = Append(@, t.fn)]

\* a runner, were it without its try/catch: a rejection ends the runner
\* and with it Promise.all
poolRunnerResumes_throws(w, t) ==
    LET w1 == [w EXCEPT !.tasks = @ (-) SetToBag({t})]
    IN  IF t.state = "rejected"
        THEN [w1 EXCEPT !.app.pool.runners = 0, !.app.pool.resolved = TRUE]
        ELSE IF w1.app.pool.queue # <<>> THEN PoolCall(w1)
        ELSE PoolSettle([w1 EXCEPT !.app.pool.runners = @ - 1])

\* a runner after `await fn()` (game.js 2936-2939): what the task threw is
\* dropped, and the loop goes on while the queue holds a task
poolRunnerResumes(w, t) ==
    LET w1 == [w EXCEPT !.tasks = @ (-) SetToBag({t})]
    IN  IF w1.app.pool.queue # <<>> THEN PoolCall(w1)
        ELSE PoolSettle([w1 EXCEPT !.app.pool.runners = @ - 1])

\* ------------------------------------------------------------------------
\* Starting a story: startStoryFlowAsync and waitForPreloadComplete
\* ------------------------------------------------------------------------
\* the end of startStoryFlowAsync (game.js 1152-1156)
StoryFlowShows(w) ==
    LET w1 == showStoryOverlay([w EXCEPT !.app.storyFlow.waiting = FALSE], w.app.storyFlow.id)
    IN  IF w1.app.autoStartStoryListening /\ ~w1.app.isListening
        THEN startListening(w1, "started")
        ELSE w1

\* one turn of the loop of waitForPreloadComplete (game.js 1161-1165) for
\* the waiting story flow, and what follows its return
waitForPreloadComplete(w, timeoutMs) ==
    IF now - w.app.storyFlow.start >= timeoutMs THEN StoryFlowShows(w)
    ELSE IF ~w.app.preloadInProgress /\ w.app.preloadVersion = w.app.storyFlow.token
    THEN StoryFlowShows(w)
    ELSE [w EXCEPT !.timers = @ \cup {[kind |-> "sleep", howl |-> NoHowl, due |-> now + 120]}]

\* startStoryFlowAsync (game.js 1131-1157)
startStoryFlowAsync(w, id) ==
    LET switch == w.app.currentMode # "bedtime"
        w1 == IF switch THEN selectMode(w, "bedtime") ELSE w
        needWait == IF switch THEN w1.app.preloadVersion # w.app.preloadVersion
                    ELSE w.app.preloadInProgress
        w2 == [w1 EXCEPT !.app.storyFlow =
                  [id |-> id, token |-> w1.app.preloadVersion, start |-> now,
                   switched |-> switch, waiting |-> needWait]]
    IN  IF needWait THEN waitForPreloadComplete(w2, 15000) ELSE StoryFlowShows(w2)

\* the timer of sleep(120) fires (game.js 1163, 1168)
sleepTimerFires(w, t) ==
    waitForPreloadComplete([w EXCEPT !.timers = @ \ {t}], 15000)

\* ------------------------------------------------------------------------
\* The fade-in of music
\* ------------------------------------------------------------------------
\* the time in which new music is faded in (game.js 2372)
musicFadeInMs == 600

\* playMusicElement with the volume of the new Howl (game.js 2355-2375): it
\* starts at 0 and is faded to the target, which currentMusic remembers
playMusicElementFading(w, name, targetVol, at) ==
    LET w1 == playMusicElement(w, name)
        id == w1.app.currentMusic
    IN  [w1 EXCEPT
           !.howls = [ i \in DOMAIN @ |->
                         IF i = id
                         THEN [kind |-> @[i].kind, name |-> @[i].name, bucket |-> @[i].bucket,
                               at |-> @[i].at, volume |-> 0, target |-> targetVol]
                         ELSE @[i] ],
           !.timers = @ \cup { [kind |-> "fade", howl |-> id, due |-> at + musicFadeInMs,
                                start |-> at, from |-> 0, to |-> targetVol] }]

\* what howl.volume() returns at a time, given the fades under way
VolumeAt(w, id, at) ==
    LET fades == { t \in w.timers : t.kind = "fade" /\ t.howl = id }
    IN  IF fades = {} THEN w.howls[id].volume
        ELSE LET f == CHOOSE t \in fades : TRUE
             IN  IF at >= f.due THEN f.to
                 ELSE f.from + ((f.to - f.from) * (at - f.start)) \div (f.due - f.start)

\* the fades have gone on until a time: every Howl has the volume of that
\* time and a fade that is over is gone
FadesUntil(w, at) ==
    [w EXCEPT
       !.howls = [ id \in DOMAIN @ |->
                     IF "volume" \in DOMAIN @[id]
                     THEN [@[id] EXCEPT !.volume = VolumeAt(w, id, at)]
                     ELSE @[id] ],
       !.timers = { t \in @ : ~(t.kind = "fade" /\ t.due <= at) }]

\* the change handler of the music toggle (game.js 990-1005)
toggleMusic(w, checked) ==
    LET w1 == [w EXCEPT !.app.musicEnabled = checked]
    IN  IF ~checked /\ w.app.currentMusic # NoHowl
        THEN [fadeOutAudio(w1, w.app.currentMusic, 300) EXCEPT !.app.currentMusic = NoHowl]
        ELSE w1

\* the change handler of the prediction toggle (game.js 1048-1065)
togglePrediction(w, checked) ==
    LET w1 == [w EXCEPT !.app.predictionEnabled = checked]
    IN  IF ~checked
        THEN [w1 EXCEPT !.app.analysisTimer = NoTimer, !.app.stingerTimer = NoTimer]
        ELSE LET w2 == IF w1.app.isListening /\ w1.app.analysisTimer = NoTimer
                       THEN [w1 EXCEPT !.app.lastAnalysisTime = 0, !.app.analysisTimer = 1]
                       ELSE w1
             IN  IF w2.app.isListening /\ w2.app.currentMusic # NoHowl
                 THEN scheduleNextStinger(w2)
                 ELSE w2

\* a timer set by StopLater fires: stop() and unload() of the Howl, and for
\* an aged sound effect its removal from activeSounds (game.js 1673-1676)
stopTimerFires(w, t) ==
    LET w1 == [w EXCEPT !.timers = @ \ {t}, !.howls = Unload(@, {t.howl})]
    IN  IF t.kind = "stopSfx"
        THEN [w1 EXCEPT !.app.activeSounds = { s \in @ : s.id # t.howl }]
        ELSE w1

\* ------------------------------------------------------------------------
\* Construction (game.js 185-337): the preferences come from localStorage
\* ------------------------------------------------------------------------
NewApp(musicOn, sfxOn, predictionOn, freesoundKey, pixabayKey) ==
    [ currentMode |-> "dnd",
      isListening |-> FALSE,
      analysisVersion |-> 0,
      musicEnabled |-> musicOn,
      sfxEnabled |-> sfxOn,
      predictionEnabled |-> predictionOn,
      freesoundApiKey |-> freesoundKey,
      pixabayApiKey |-> pixabayKey,
      transcriptBuffer |-> <<>>,
      musicLevel |-> 5,
      backendCooldownUntil |-> 0,
      duckingInProgress |-> FALSE,
      recognition |-> "idle",
      pool |-> NoPool,
      autoStartStoryListening |-> FALSE,
      storyFlow |-> NoFlow,
      moodBias |-> 50,
      lastAnalysisTime |-> 0,
      analysisInterval |-> 7000,
      analysisTimer |-> NoTimer,
      analysisInProgress |-> FALSE,
      currentInterim |-> <<>>,
      currentMusic |-> NoHowl,
      activeSounds |-> {},
      maxSimultaneousSounds |-> 3,
      stingerTimer |-> NoTimer,
      preloadVersion |-> 0,
      preloadInProgress |-> FALSE,
      preloadTimers |-> {},      \* version tokens of the pending setTimeout calls
      preloadQueue |-> <<>>,     \* the queue of runWithConcurrency
      lowLatencyMode |-> FALSE,
      effectiveType |-> <<"4","g">>,   \* navigator.connection.effectiveType
      predictiveBusy |-> FALSE,
      soundCache |-> {},         \* the queries with a cached URL
      activeBuffers |-> {},      \* the URLs with a decoded buffer
      sfxCooldownMs |-> 3500,
      sfxCooldowns |-> EmptyMap,
      storyActive |-> FALSE,
      currentStory |-> NoStory,
      storyIndex |-> 0,
      storyTokens |-> <<>>,
      storyNorm |-> <<>> ]

InitWith(a) ==
    /\ app = a
    /\ howls = <<>>
    /\ tasks = EmptyBag
    /\ timers = {}
    /\ now = Epoch
    /\ storyLog = <<>>
    /\ cueLog = <<>>
    /\ musicLog = <<>>
    /\ preloadLog = <<>>
    /\ speechLog = <<>>
    /\ rateLimitMap = <<>>
    /\ served = [ ip \in ClientIps |-> <<>> ]

\* ------------------------------------------------------------------------
\* Story alignment: reading a story aloud with sound effects switched off
\* ------------------------------------------------------------------------
StoryFragments ==
    { <<"o","n","c","e">>, <<"t","i","m","e">>, <<"d","o","g">>, <<"r","e","d"," ","b","l","u","e"," ","g","r","e","e","n">>, <<"W","o","l","f"," ","r","a","n"," ","h","o","m","e",".">>,
      <<"g","o"," ","g","o"," ","g","o"," ","g","o">>, <<"T","h","e"," ","b","e","l","l","s">>, <<"?","!">> }

InitStory == InitWith(NewApp(TRUE, FALSE, FALSE, TRUE, FALSE))

ShowStoryOverlay ==
    /\ \E id \in StoryIds : Commit(showStoryOverlay(World, id))
    /\ UNCHANGED now

HideStoryOverlay ==
    /\ app.storyActive
    /\ Commit(hideStoryOverlay(World))
    /\ UNCHANGED now

AdvanceStory ==
    /\ app.storyActive
    /\ Len(storyLog) < MaxCalls
    /\ \E text \in StoryFragments : Commit(advanceStoryWithTranscript(World, text))
    /\ UNCHANGED now

NextStory == ShowStoryOverlay \/ HideStoryOverlay \/ AdvanceStory

SpecStory == InitStory /\ [][NextStory]_vars


\* ------------------------------------------------------------------------
\* Time
\* ------------------------------------------------------------------------
\* d milliseconds pass; a timer fires when it is due, not later
Tick(d) ==
    /\ now + d <= Epoch + MaxTime
    /\ \A t \in timers : t.due >= now + d
    /\ now' = now + d
    /\ UNCHANGED <<app, howls, tasks, timers, storyLog, cueLog, musicLog, preloadLog, speechLog,
                 rateLimitMap, served>>

\* ------------------------------------------------------------------------
\* Keyword cues: transcripts checked for instant keywords, sounds resolved
\* by the remote search and played
\* ------------------------------------------------------------------------
CueFragments ==
    { <<"t","h","e"," ","d","o","g"," ","b","a","r","k","e","d"," ","s","u","d","d","e","n","l","y">>, <<"t","h","e"," ","d","o","g"," ","b","a","r","k"," ","s","u","d","d","e","n","l","y">>,
      <<"B","a","n","g","!"," ","A"," ","c","r","a","s","h",","," ","t","h","e","n"," ","a"," ","b","o","o","m",".">>, <<"a"," ","K","n","o","c","k">>, <<>> }

CueTick == 3500

\* the API keys of localStorage: none, Freesound only, Pixabay only
CueSources == { <<FALSE, FALSE>>, <<TRUE, FALSE>>, <<FALSE, TRUE>> }

InitCue ==
    \E sfxOn \in BOOLEAN, keys \in CueSources :
        InitWith(NewApp(TRUE, sfxOn, FALSE, keys[1], keys[2]))

CheckInstantKeywords ==
    /\ BagCardinality(tasks) < MaxCueInFlight
    /\ \E text \in CueFragments : Commit(checkInstantKeywords(World, text))
    /\ UNCHANGED now

\* searchAudio answers a suspended playSoundEffect: a URL can only come from
\* Freesound (searchPixabay returns null, saved sounds are off at start)
SearchAnswers(cap) ==
    /\ \E t \in BagToSet(tasks) :
          /\ t.kind = "playSoundEffect"
          /\ \E found \in (IF app.freesoundApiKey THEN BOOLEAN ELSE {FALSE}) :
                /\ found => Cardinality(DOMAIN howls) < cap
                /\ Commit(playSoundEffectResume(World, t, found))
    /\ UNCHANGED now

CueSearchDone == SearchAnswers(MaxCueHowls)

SfxEnded ==
    /\ \E id \in DOMAIN howls :
          /\ howls[id].kind = "sfx"
          /\ Commit(sfxOnEnd(World, id))
    /\ UNCHANGED now

CueTime == Tick(CueTick)

NextCue == CheckInstantKeywords \/ CueSearchDone \/ SfxEnded \/ CueTime

SpecCue == InitCue /\ [][NextCue]_vars

\* ------------------------------------------------------------------------
\* Overlapping sound effects: several play requests suspended in the search
\* at once, sound effects on and Freesound configured
\* ------------------------------------------------------------------------
SfxFragments == { <<"a"," ","K","n","o","c","k">>, <<"t","h","e"," ","d","o","o","r"," ","w","i","l","l"," ","s","l","a","m">> }

InitSfx == InitWith(NewApp(TRUE, TRUE, FALSE, TRUE, FALSE))

SfxCue ==
    /\ BagCardinality(tasks) < MaxInFlight
    /\ \E text \in SfxFragments : Commit(checkInstantKeywords(World, text))
    /\ UNCHANGED now

SfxSearchDone == SearchAnswers(MaxHowls)

NextSfx == SfxCue \/ SfxSearchDone \/ SfxEnded \/ CueTime

SpecSfx == InitSfx /\ [][NextSfx]_vars


\* ------------------------------------------------------------------------
\* The music director: listening sessions, mode changes, toggles and the
\* decisions of the analysis, with predictions switched on
\* ------------------------------------------------------------------------
Modes == {"horror"}

\* what the transcript buffer and the interim text give maybeAnalyzeLive
ContextTexts == { <<"a"," ","s","t","o","r","m">>, <<"t","h","e"," ","d","r","a","g","o","n"," ","a","t","t","a","c","k","s">> }

\* the decisions the backend can answer with
Decisions ==
    { [music |-> [id |-> i, action |-> "play_or_continue"], sfx |-> <<>>] :
          i \in { <<"c","a","l","m","_","f","o","r","e","s","t">>, <<"c","a","l","m","_","l","a","k","e">>, <<"l","o","s","t","_","t","r","a","c","k">> } }
      \cup { [music |-> [id |-> <<"e","p","i","c","_","b","a","t","t","l","e">>, action |-> "change"], sfx |-> <<>>],
             [music |-> NoMusic, sfx |-> << [id |-> <<"d","o","o","r","_","c","r","e","a","k">>] >>] }

InitMusic == InitWith(NewApp(TRUE, TRUE, TRUE, TRUE, FALSE))

StartListening ==
    /\ ~app.isListening
    /\ app.preloadVersion < MaxRestarts
    /\ \E outcome \in {"started", "already started", "failed"} :
          Commit(startListening(World, outcome))
    /\ UNCHANGED now

StopListening ==
    /\ app.isListening
    /\ Commit(stopListening(World))
    /\ UNCHANGED now

SelectMode ==
    /\ app.preloadVersion < MaxRestarts
    /\ \E mode \in Modes : Commit(selectMode(World, mode))
    /\ UNCHANGED now

StopAllAudio ==
    /\ Commit(stopAllAudio(World))
    /\ UNCHANGED now

ToggleMusic ==
    /\ Cardinality(timers) < MaxTimers
    /\ Commit(toggleMusic(World, ~app.musicEnabled))
    /\ UNCHANGED now

TogglePrediction ==
    /\ Commit(togglePrediction(World, ~app.predictionEnabled))
    /\ UNCHANGED now

\* the interval timer or a speech result runs maybeAnalyzeLive
MaybeAnalyzeLive ==
    /\ app.isListening
    /\ BagCardinality(tasks) < MaxCueInFlight
    /\ \E contextText \in ContextTexts : Commit(maybeAnalyzeLive(World, contextText))
    /\ UNCHANGED now

AnalysisAnswers ==
    /\ \E t \in BagToSet(tasks) :
          /\ t.kind = "analyzeContext"
          /\ \E response \in Decisions \cup {NoResponse} :
                /\ Cardinality(DOMAIN howls) < MaxMusicHowls
                /\ Cardinality(timers) < MaxTimers
                /\ Commit(analyzeContextResume(World, t, response))
    /\ UNCHANGED now

StopTimerFires ==
    /\ \E t \in timers :
          /\ t.due <= now
          /\ Commit(stopTimerFires(World, t))
    /\ UNCHANGED now

\* time passes up to the next timer that is due
NextDue == CHOOSE d \in { t.due : t \in timers } : \A t \in timers : d <= t.due

TimeToTimer ==
    /\ timers # {}
    /\ NextDue > now
    /\ NextDue <= Epoch + MaxMusicTime
    /\ now' = NextDue
    /\ musicLog' = <<>>
    /\ preloadLog' = <<>>
    /\ UNCHANGED <<app, howls, tasks, timers, storyLog, cueLog, speechLog, rateLimitMap, served>>

NextMusic ==
    \/ StartListening \/ StopListening \/ SelectMode \/ StopAllAudio
    \/ ToggleMusic \/ TogglePrediction
    \/ MaybeAnalyzeLive \/ AnalysisAnswers
    \/ SfxEnded \/ StopTimerFires \/ TimeToTimer

SpecMusic == InitMusic /\ [][NextMusic]_vars

\* ------------------------------------------------------------------------
\* The decisions given to the music director, one analysis at a time, with
\* a record of each answer and of what it did to the music
\* ------------------------------------------------------------------------
\* what the language model can answer with
RawDecisions ==
    { [music |-> [id |-> i, action |-> "play_or_continue"], sfx |-> <<>>] :
          i \in { <<"c","a","l","m","_","f","o","r","e","s","t">>, <<"p","e","a","c","e","f","u","l","_","m","e","a","d","o","w">>, <<"e","p","i","c","_","b","a","t","t","l","e">>, <<"l","o","s","t","_","t","r","a","c","k">> } }
      \cup { [music |-> [id |-> <<"e","p","i","c","_","b","a","t","t","l","e">>, action |-> "change"], sfx |-> <<>>],
             [music |-> NoMusic, sfx |-> << [id |-> <<"l","o","s","t","_","s","o","u","n","d">>], [id |-> <<"d","o","o","r","_","c","r","e","a","k">>] >>] }

Routes == {"backend", "client", "error"}

\* the track a Howl of the registry plays, <<>> for none
TrackOf(registry, id) == IF id \in DOMAIN registry THEN registry[id].name ELSE <<>>

\* the music part of the sounds: the playing music and its pending stops
MusicPart(w) ==
    [ current |-> w.app.currentMusic,
      sounds |-> { id \in DOMAIN w.howls : w.howls[id].kind = "music" },
      stops |-> { t \in w.timers : t.kind = "stopHowl" } ]

\* the record of one answer: the response, and the state of the music
\* before and after it
AnswerRecord(w0, w1, t, response, route) ==
    [ response |-> response,
      route |-> route,
      stale |-> t.version # w0.app.analysisVersion,
      enabled |-> w0.app.musicEnabled /\ w0.app.predictionEnabled,
      at |-> now,
      before |-> w0.app.currentMusic,
      beforeTrack |-> TrackOf(w0.howls, w0.app.currentMusic),
      after |-> w1.app.currentMusic,
      afterTrack |-> TrackOf(w1.howls, w1.app.currentMusic),
      musicSame |-> MusicPart(w1) = MusicPart(w0),
      soundsSame |-> /\ w1.howls = w0.howls
                     /\ w1.timers = w0.timers
                     /\ w1.app.activeSounds = w0.app.activeSounds
                     /\ w1.app.currentMusic = w0.app.currentMusic ]

InitDirector == InitWith(NewApp(TRUE, TRUE, TRUE, FALSE, FALSE))

DirectorAnswers ==
    /\ \E t \in BagToSet(tasks) :
          /\ t.kind = "analyzeContext"
          /\ \E raw \in RawDecisions, route \in Routes :
                LET response == analyzeTranscript(raw, route)
                    w1 == analyzeContextResume(World, t, response)
                IN  /\ Cardinality(DOMAIN howls) < MaxMusicHowls
                    /\ Cardinality(timers) < MaxTimers
                    /\ Commit([w1 EXCEPT !.musicLog =
                                  << AnswerRecord(World, w1, t, response, route) >>])
    /\ UNCHANGED now

\* ------------------------------------------------------------------------
\* The preload of a mode and the predictive prefetch, with a record of each
\* task that resumes
\* ------------------------------------------------------------------------
EffectiveTypes == { <<"2","g">>, <<"4","g">> }

PrefetchTexts == { <<"a"," ","B","a","r","k"," ","a","n","d"," ","a"," ","k","n","o","c","k">>, <<"h","e","l","l","o">> }

InitPreload ==
    \E e \in EffectiveTypes :
        InitWith([NewApp(TRUE, TRUE, TRUE, TRUE, FALSE) EXCEPT !.effectiveType = e])

\* the record of a resumed task: whether its token was stale, and what the
\* step did
PreloadRecord(w0, w1, t) ==
    [ kind |-> t.kind,
      stage |-> t.stage,
      q |-> t.q,
      stale |-> t.token # w0.app.preloadVersion,
      soundsSame |-> /\ w1.howls = w0.howls
                     /\ w1.timers = w0.timers
                     /\ w1.app.activeSounds = w0.app.activeSounds
                     /\ w1.app.currentMusic = w0.app.currentMusic,
      cached |-> w1.app.soundCache # w0.app.soundCache
                     \/ w1.app.activeBuffers # w0.app.activeBuffers,
      fetchIssued |-> \E u \in BagToSet(w1.tasks) :
                          /\ u.kind \in {"preload", "prefetch"}
                          /\ u.stage = "fetch"
                          /\ CopiesIn(u, w1.tasks) > CopiesIn(u, w0.tasks),
      decoded |-> w1.app.activeBuffers # w0.app.activeBuffers,
      settled |-> w0.app.preloadInProgress /\ ~w1.app.preloadInProgress ]

PreloadTimerFires ==
    /\ \E versionToken \in app.preloadTimers :
          \E w \in { preloadTimerFires(World, versionToken) } : Commit(w)
    /\ UNCHANGED now

PreloadAnswers ==
    /\ \E t \in BagToSet(tasks) :
          /\ t.kind = "preload"
          /\ \E ok \in BOOLEAN :
                LET w1 == preloadResume(World, t, ok)
                IN  Commit([w1 EXCEPT !.preloadLog = << PreloadRecord(World, w1, t) >>])
    /\ UNCHANGED now

\* an interim speech result runs predictivePrefetch
PredictivePrefetch ==
    /\ app.isListening
    /\ Cardinality({ t \in BagToSet(tasks) : t.kind = "prefetch" }) < MaxPrefetch
    /\ \E text \in PrefetchTexts : Commit(predictivePrefetch(World, text))
    /\ UNCHANGED now

\* the 400 ms timer of the debounce fires
PredictiveIdle ==
    /\ app.predictiveBusy
    /\ Commit([World EXCEPT !.app.predictiveBusy = FALSE])
    /\ UNCHANGED now

PrefetchAnswers ==
    /\ \E t \in BagToSet(tasks) :
          /\ t.kind = "prefetch"
          /\ \E ok \in BOOLEAN :
                LET w1 == prefetchResume(World, t, ok)
                IN  Commit([w1 EXCEPT !.preloadLog = << PreloadRecord(World, w1, t) >>])
    /\ UNCHANGED now

\* the preload across changes of the mode
NextPreload == SelectMode \/ PreloadTimerFires \/ PreloadAnswers

SpecPreload == InitPreload /\ [][NextPreload]_vars

\* the preload of one session together with the predictive prefetch
NextPrefetch ==
    \/ StartListening
    \/ PreloadTimerFires \/ PreloadAnswers
    \/ PredictivePrefetch \/ PredictiveIdle \/ PrefetchAnswers

SpecPrefetch == InitPreload /\ [][NextPrefetch]_vars

\* the preload with the steps the page schedules itself taken eventually: a
\* preload timer that is due fires; nothing in the code makes a provider
\* answer (fetch is called without a signal or a time limit, game.js 2109
\* and 2913)
SpecPreloadLive == InitPreload /\ [][NextPreload]_vars /\ WF_vars(PreloadTimerFires)

\* sound requests across changes of the mode
NextCancel == SfxCue \/ SfxSearchDone \/ SfxEnded \/ SelectMode

SpecCancel == InitSfx /\ [][NextCancel]_vars

\* ------------------------------------------------------------------------
\* Reading a story aloud with sound effects switched on: the cue sounds of
\* the window ahead of the cursor are warmed
\* ------------------------------------------------------------------------
InitWindow == InitWith(NewApp(TRUE, TRUE, FALSE, TRUE, FALSE))

WindowShow ==
    /\ BagCardinality(tasks) < MaxWindow
    /\ ShowStoryOverlay

\* what is read on while a window of the story is prefetched
WindowFragments == { <<"d","o","g">>, <<"T","h","e"," ","b","e","l","l","s">> }

WindowAdvance ==
    /\ BagCardinality(tasks) < MaxWindow
    /\ app.storyActive
    /\ Len(storyLog) < MaxCalls
    /\ \E text \in WindowFragments : Commit(advanceStoryWithTranscript(World, text))
    /\ UNCHANGED now

NextWindow == WindowShow \/ WindowAdvance \/ HideStoryOverlay \/ PrefetchAnswers

SpecWindow == InitWindow /\ [][NextWindow]_vars

\* ------------------------------------------------------------------------
\* Speech results while listening: the transcript buffer, voice commands,
\* keyword cues and their sounds
\* ------------------------------------------------------------------------
Res(t, f) == [transcript |-> t, isFinal |-> f]

\* event.results from event.resultIndex on
SpeechEvents ==
    { << Res(<<"o","n","c","e">>, TRUE) >>,
      << Res(<<"t","h","e"," ","d","o","g">>, FALSE) >>,
      << Res(<<"t","i","m","e">>, TRUE), Res(<<" ","g","o">>, FALSE) >>,
      << Res(<<"u","n","m","u","t","e"," ","s","f","x">>, TRUE) >>,
      << Res(<<"a"," ","K","n","o","c","k">>, TRUE) >>,
      << Res(<<"s","w","i","t","c","h"," ","t","o"," ","h","o","r","r","o","r">>, TRUE) >> }

\* the state after construction
NewWorld(a) ==
    [app |-> a, howls |-> <<>>, tasks |-> EmptyBag, timers |-> {},
     storyLog |-> <<>>, cueLog |-> <<>>, musicLog |-> <<>>, preloadLog |-> <<>>,
     speechLog |-> <<>>]

\* the transcript buffer after n final results without a cue word; with
\* sound effects and predictions off such a result changes nothing else
Spoken(n) == [ k \in 1..n |-> IF k % 2 = 1 THEN <<"o","n","c","e">> ELSE <<"t","i","m","e">> ]

\* the lengths of the transcript buffer a run starts from
FillLevels == {0, BufferCap - 1, BufferCap}

\* listening has started with sound effects and predictions off, the preload
\* timer has fired, and some fragments have been spoken
InitSpeech ==
    \E n \in FillLevels :
        LET w0 == NewWorld(NewApp(TRUE, FALSE, FALSE, TRUE, FALSE))
            w1 == preloadTimerFires(startListening(w0, "started"), 1)
        IN  InitWith([w1.app EXCEPT !.transcriptBuffer = Spoken(n)])

SpeechRecord(w0, results) ==
    [ results |-> results,
      lenBefore |-> Len(w0.app.transcriptBuffer),
      pending |-> BagCardinality(w0.tasks) ]

HandleSpeechResult ==
    /\ app.isListening
    /\ Len(speechLog) < MaxResults
    /\ \E results \in SpeechEvents :
          \E w1 \in { handleSpeechResult(World, results) } :
              Commit([w1 EXCEPT !.speechLog = Append(@, SpeechRecord(World, results))])
    /\ UNCHANGED now

NextSpeech == HandleSpeechResult \/ SfxSearchDone \/ SfxEnded

SpecSpeech == InitSpeech /\ [][NextSpeech]_vars

\* ------------------------------------------------------------------------
\* Sound effects whose file fails to load after the search gave a URL
\* ------------------------------------------------------------------------
SfxLoadError ==
    /\ \E id \in DOMAIN howls :
          /\ howls[id].kind = "sfx"
          /\ Commit(sfxOnLoadError(World, id))
    /\ UNCHANGED now

NextLoad == SfxCue \/ SfxSearchDone \/ SfxLoadError \/ SfxEnded

SpecLoad == InitSfx /\ [][NextLoad]_vars

\* ------------------------------------------------------------------------
\* The analysis of the transcript when the backend refuses requests
\* ------------------------------------------------------------------------
InitBackoff == InitWith(NewApp(TRUE, TRUE, TRUE, TRUE, FALSE))

\* a decision that asks for no sound
QuietDecision == [music |-> NoMusic, sfx |-> <<>>]

BackendAnswers ==
    /\ \E t \in BagToSet(tasks) :
          /\ t.kind = "analyzeContext"
          /\ t.route = "backend"
          /\ \E outcome \in {"ok", "429", "error"} :
                Commit(backendResume(World, t, outcome, QuietDecision))
    /\ UNCHANGED now

\* the model asked from the client answers, or the call fails
ClientAnswers ==
    /\ \E t \in BagToSet(tasks) :
          /\ t.kind = "analyzeContext"
          /\ t.route = "client"
          /\ \E response \in {QuietDecision, NoResponse} :
                Commit(analyzeContextResume(World, t, response))
    /\ UNCHANGED now

\* one analysis interval passes
BackoffTime ==
    /\ now + app.analysisInterval <= Epoch + MaxBackoffTime
    /\ now' = now + app.analysisInterval
    /\ UNCHANGED <<app, howls, tasks, timers, storyLog, cueLog, musicLog, preloadLog, speechLog,
                 rateLimitMap, served>>

NextBackoff ==
    \/ StartListening \/ MaybeAnalyzeLive
    \/ BackendAnswers \/ ClientAnswers \/ BackoffTime

SpecBackoff == InitBackoff /\ [][NextBackoff]_vars

\* ------------------------------------------------------------------------
\* The backend's rate limiter for POST /analyze (server/index.js)
\* ------------------------------------------------------------------------
RATE_LIMIT_WINDOW == 60000
RATE_LIMIT_MAX == 10
RateMapLimit == 10000
RateMapKeep == 5000

\* checkRateLimit (server/index.js 29-48): the answer and the table after it
checkRateLimit(m, ip) ==
    LET record == MapGet(m, ip, [count |-> 0, resetTime |-> now + RATE_LIMIT_WINDOW])
    IN  IF now > record.resetTime
        THEN [ok |-> TRUE,
              map |-> MapSet(m, ip, [count |-> 1, resetTime |-> now + RATE_LIMIT_WINDOW])]
        ELSE IF record.count >= RATE_LIMIT_MAX
        THEN [ok |-> FALSE, map |-> m]
        ELSE [ok |-> TRUE, map |-> MapSet(m, ip, [record EXCEPT !.count = @ + 1])]

Requested == Len(served["ip1"]) + Len(served["ip2"])

\* POST /analyze (server/index.js 141-148): a refused request is answered
\* with 429, an admitted one goes on to the analysis
PostAnalyze ==
    /\ Requested < MaxRequests
    /\ \E clientIp \in ClientIps :
          \E r \in { checkRateLimit(rateLimitMap, clientIp) } :
             /\ rateLimitMap' = r.map
             /\ served' = [served EXCEPT ![clientIp] =
                              Append(@, [time |-> now, status |-> IF r.ok THEN 200 ELSE 429])]
    /\ UNCHANGED <<app, howls, tasks, timers, now, storyLog, cueLog, musicLog, preloadLog, speechLog>>

\* the clean-up that runs every five minutes (server/index.js 51-70)
RateLimitCleanup ==
    /\ \E expired \in { { ip \in DOMAIN rateLimitMap : now > rateLimitMap[ip].resetTime } } :
       \E m \in { [ ip \in DOMAIN rateLimitMap \ expired |-> rateLimitMap[ip] ] } :
          rateLimitMap' =
             IF Cardinality(DOMAIN m) > RateMapLimit
             THEN LET newest == CHOOSE S \in SUBSET DOMAIN m :
                                   /\ Cardinality(S) = RateMapKeep
                                   /\ \A a \in S, b \in DOMAIN m \ S :
                                         m[a].resetTime >= m[b].resetTime
                  IN  [ ip \in newest |-> m[ip] ]
             ELSE m
    /\ UNCHANGED <<app, howls, tasks, timers, now, storyLog, cueLog, musicLog, preloadLog, speechLog,
                   served>>

\* the time between two bursts of requests: a little over half a window
RequestGap == RATE_LIMIT_WINDOW \div 2 + 1

ServerTime ==
    /\ now + RequestGap <= Epoch + MaxServerTime
    /\ now' = now + RequestGap
    /\ UNCHANGED <<app, howls, tasks, timers, storyLog, cueLog, musicLog, preloadLog, speechLog,
                   rateLimitMap, served>>

InitRate == InitWith(NewApp(TRUE, TRUE, TRUE, TRUE, FALSE))

NextRate == PostAnalyze \/ RateLimitCleanup \/ ServerTime

SpecRate == InitRate /\ [][NextRate]_vars

\* ------------------------------------------------------------------------
\* Sound effects over playing music: the ducking envelope
\* ------------------------------------------------------------------------
\* the volumes the music can have been started with
MusicVolumes == {22500, 2000}

\* a whole envelope: attack, hold, the duration asked for and the release
EnvelopeMs == 50 + 150 + 600 + 450

\* music plays and its fade-in is over
InitDuck ==
    \E v \in MusicVolumes :
       \E w \in { playMusicElement(NewWorld(NewApp(TRUE, TRUE, TRUE, TRUE, FALSE)), <<"c","a","l","m","_","f","o","r","e","s","t">>) } :
          /\ app = w.app
          /\ howls = [ id \in DOMAIN w.howls |->
                         [kind |-> w.howls[id].kind, name |-> w.howls[id].name,
                          bucket |-> w.howls[id].bucket, at |-> w.howls[id].at, volume |-> v] ]
          /\ tasks = EmptyBag
          /\ timers = {}
          /\ now = Epoch
          /\ storyLog = <<>>
          /\ cueLog = <<>>
          /\ musicLog = <<>>
          /\ preloadLog = <<>>
          /\ speechLog = <<>>
          /\ rateLimitMap = <<>>
          /\ served = [ ip \in ClientIps |-> <<>> ]

\* a sound effect is started
DuckSfx ==
    /\ Cardinality(DOMAIN howls) < MaxDuckHowls
    /\ now + EnvelopeMs <= Epoch + MaxDuckTime
    /\ \E name \in { <<"k","n","o","c","k">> } :
          \E w \in { playSFXBufferDucking(World, name, name, now) } : Commit(w)
    /\ UNCHANGED now

DuckTimerFires ==
    /\ \E t \in timers :
          /\ t.kind \in {"duckRelease", "duckEnd"}
          /\ t.due <= now
          /\ \E w \in { duckTimerFires(World, t) } : Commit(w)
    /\ UNCHANGED now

\* everything is silenced while the envelope may be running
DuckStopAll ==
    /\ app.currentMusic # NoHowl
    /\ Commit(stopAllAudio(World))
    /\ UNCHANGED now

\* the clock reaches the next timer
DuckClock ==
    /\ timers # {}
    /\ NextDue > now
    /\ NextDue <= Epoch + MaxDuckTime
    /\ now' = NextDue
    /\ UNCHANGED <<app, howls, tasks, timers, storyLog, cueLog, musicLog, preloadLog, speechLog,
                   rateLimitMap, served>>

\* a fifth of a second passes
DuckTick ==
    /\ now + 200 <= Epoch + MaxDuckTime
    /\ \A t \in timers : t.due >= now + 200
    /\ now' = now + 200
    /\ UNCHANGED <<app, howls, tasks, timers, storyLog, cueLog, musicLog, preloadLog, speechLog,
                   rateLimitMap, served>>

NextDuck == DuckSfx \/ SfxEnded \/ DuckTimerFires \/ DuckStopAll \/ DuckClock \/ DuckTick

\* setTimeout fires a timer that is due, and time passes (game.js 2231-2234)
SpecDuck ==
    InitDuck /\ [][NextDuck]_vars /\ WF_vars(DuckTimerFires) /\ WF_vars(DuckClock)

\* ------------------------------------------------------------------------
\* Changes of the mode and the closing of a story, with prefetches in flight
\* ------------------------------------------------------------------------
NextGeneration ==
    \/ WindowShow \/ WindowAdvance \/ HideStoryOverlay \/ PrefetchAnswers
    \/ SelectMode

SpecGeneration == InitWindow /\ [][NextGeneration]_vars

\* ------------------------------------------------------------------------
\* Listening sessions whose recognition ends and is restarted
\* ------------------------------------------------------------------------
InitListen == InitWith(NewApp(TRUE, TRUE, FALSE, TRUE, FALSE))

ListenStart ==
    /\ ~app.isListening
    /\ app.preloadVersion < MaxRestarts
    /\ \E outcome \in (IF app.recognition = "active" THEN {"already started"}
                       ELSE {"started", "failed"}) :
          \E w \in { startListeningSession(World, outcome) } : Commit(w)
    /\ UNCHANGED now

\* the recognition session ends: silence, an error, or stop()
RecognitionEnds ==
    /\ app.recognition = "active"
    /\ now + 100 <= Epoch + MaxListenTime
    /\ \E w \in { recognitionOnEnd(World) } : Commit(w)
    /\ UNCHANGED now

RecognitionError ==
    /\ app.recognition = "active"
    /\ \E error \in {"no-speech", "not-allowed", "network"} :
          \E w \in { handleSpeechError(World, error) } : Commit(w)
    /\ UNCHANGED now

RestartTimerFires ==
    /\ \E t \in timers :
          /\ t.kind = "restartRecognition"
          /\ t.due <= now
          /\ \E w \in { restartTimerFires(World, t) } : Commit(w)
    /\ UNCHANGED now

ListenClock ==
    /\ timers # {}
    /\ NextDue > now
    /\ NextDue <= Epoch + MaxListenTime
    /\ now' = NextDue
    /\ UNCHANGED <<app, howls, tasks, timers, storyLog, cueLog, musicLog, preloadLog, speechLog,
                   rateLimitMap, served>>

NextListen ==
    \/ ListenStart \/ StopListening \/ RecognitionEnds \/ RecognitionError
    \/ RestartTimerFires \/ ListenClock

\* setTimeout fires the restart when it is due (game.js 1266-1275)
SpecListen ==
    InitListen /\ [][NextListen]_vars /\ WF_vars(RestartTimerFires) /\ WF_vars(ListenClock)

\* ------------------------------------------------------------------------
\* The worker pool by itself
\* ------------------------------------------------------------------------
InitPool == InitWith(NewApp(TRUE, TRUE, FALSE, TRUE, FALSE))

\* the ways a task function can behave
TaskKinds == {"returns", "throws", "awaits"}

\* the task lists of up to MaxPoolTasks functions
PoolTaskLists ==
    UNION { [ 1..n -> TaskKinds ] : n \in 0..MaxPoolTasks }

\* the limits that getPreloadConcurrency gives
PoolLimits ==
    { getPreloadConcurrency([app |-> [lowLatencyMode |-> l, effectiveType |-> e]]) :
         l \in BOOLEAN, e \in EffectiveTypes }

RunWithConcurrency ==
    /\ app.pool = NoPool
    /\ \E kinds \in PoolTaskLists, limit \in PoolLimits :
          \E w \in { runWithConcurrency(World,
                        [ k \in 1..Len(kinds) |-> [id |-> k, sync |-> kinds[k]] ], limit) } :
             Commit(w)
    /\ UNCHANGED now

PoolTaskSettles ==
    /\ \E t \in BagToSet(tasks) :
          /\ t.kind = "poolTask"
          /\ t.state = "pending"
          /\ \E state \in {"fulfilled", "rejected"} :
                \E w \in { poolTaskSettles(World, t, state) } : Commit(w)
    /\ UNCHANGED now

PoolRunnerResumes ==
    /\ \E t \in BagToSet(tasks) :
          /\ t.kind = "poolTask"
          /\ t.state # "pending"
          /\ \E w \in { poolRunnerResumes(World, t) } : Commit(w)
    /\ UNCHANGED now

NextPool == RunWithConcurrency \/ PoolTaskSettles \/ PoolRunnerResumes

SpecPool == InitPool /\ [][NextPool]_vars

\* ------------------------------------------------------------------------
\* A story is started while sounds are preloaded
\* ------------------------------------------------------------------------
\* one story is started in a run
StartStoryFlow ==
    /\ app.storyFlow = NoFlow
    /\ app.preloadVersion < MaxRestarts
    /\ \E id \in {"dog"} :
          \E w \in { startStoryFlowAsync(World, id) } : Commit(w)
    /\ UNCHANGED now

SleepTimerFires ==
    /\ \E t \in timers :
          /\ t.kind = "sleep"
          /\ t.due <= now
          /\ \E w \in { sleepTimerFires(World, t) } : Commit(w)
    /\ UNCHANGED now

FlowClock ==
    /\ timers # {}
    /\ NextDue > now
    /\ NextDue <= Epoch + MaxFlowTime
    /\ now' = NextDue
    /\ UNCHANGED <<app, howls, tasks, timers, storyLog, cueLog, musicLog, preloadLog, speechLog,
                   rateLimitMap, served>>

NextStoryFlow ==
    \/ StartStoryFlow \/ SleepTimerFires \/ FlowClock
    \/ SelectMode \/ PreloadTimerFires \/ PreloadAnswers

SpecStoryFlow == InitPreload /\ [][NextStoryFlow]_vars

\* ------------------------------------------------------------------------
\* A sound effect that starts while the music is faded in
\* ------------------------------------------------------------------------
\* processSoundDecisions (game.js 1683-1693) has started the music of a
\* decision; its sound effects follow
InitFadeIn ==
    \E v \in MusicVolumes :
       \E w \in { playMusicElementFading(NewWorld(NewApp(TRUE, TRUE, TRUE, TRUE, FALSE)),
                                         <<"c","a","l","m","_","f","o","r","e","s","t">>, v, Epoch) } :
          /\ app = w.app
          /\ howls = w.howls
          /\ tasks = EmptyBag
          /\ timers = w.timers
          /\ now = Epoch
          /\ storyLog = <<>>
          /\ cueLog = <<>>
          /\ musicLog = <<>>
          /\ preloadLog = <<>>
          /\ speechLog = <<>>
          /\ rateLimitMap = <<>>
          /\ served = [ ip \in ClientIps |-> <<>> ]

\* a sound effect of the decision is started
FadeInSfx ==
    /\ Cardinality(DOMAIN howls) < MaxDuckHowls
    /\ \E name \in { <<"k","n","o","c","k">> } :
          \E w \in { playSFXBufferDucking(World, name, name, now) } : Commit(w)
    /\ UNCHANGED now

\* time passes, to the next timer of the ducking at most, and the fades go on
FadeInTime ==
    \E at \in { now + 100 } \cup { t.due : t \in timers } :
       /\ at > now
       /\ at <= Epoch + MaxFadeTime
       /\ \A t \in timers : t.kind \in {"duckRelease", "duckEnd"} => at <= t.due
       /\ now' = at
       /\ Commit(FadesUntil(World, at))

NextFadeIn == FadeInSfx \/ SfxEnded \/ DuckTimerFires \/ FadeInTime

SpecFadeIn == InitFadeIn /\ [][NextFadeIn]_vars

\* ------------------------------------------------------------------------
\* Errors of the speech recognition while the director plays sounds
\* ------------------------------------------------------------------------
\* event.error of the recognition's error event; "aborted" stands for the
\* errors that handleSpeechError does not name
SpeechErrors == {"no-speech", "audio-capture", "not-allowed", "network", "aborted"}

SpeechError ==
    /\ app.isListening
    /\ \E error \in SpeechErrors :
          \E w \in { handleSpeechError(World, error) } : Commit(w)
    /\ UNCHANGED now

NextError ==
    \/ StartListening \/ SpeechError
    \/ MaybeAnalyzeLive \/ DirectorAnswers
    \/ SfxEnded \/ StopTimerFires \/ TimeToTimer

SpecError == InitDirector /\ [][NextError]_vars

\* the preload across changes of the mode, with every provider answering:
\* a preload timer that is due fires (game.js 1203, 2653) and every search
\* and fetch of a preload task comes back
SpecModeChange ==
    InitPreload /\ [][NextPreload]_vars
       /\ WF_vars(PreloadTimerFires) /\ WF_vars(PreloadAnswers)

\* the director within one mode
NextDirector ==
    \/ StartListening \/ StopListening \/ TogglePrediction
    \/ MaybeAnalyzeLive \/ DirectorAnswers
    \/ SfxEnded \/ StopTimerFires \/ TimeToTimer

SpecDirector == InitDirector /\ [][NextDirector]_vars

\* maybeAnalyzeLive while an analysis of an earlier mode may still be in
\* flight
MaybeAnalyzeLiveAgain ==
    /\ app.isListening
    /\ BagCardinality(tasks) < MaxAnalyses
    /\ \E contextText \in ContextTexts : Commit(maybeAnalyzeLive(World, contextText))
    /\ UNCHANGED now

\* the director across changes of the mode
NextStale ==
    \/ StartListening \/ SelectMode
    \/ MaybeAnalyzeLiveAgain \/ DirectorAnswers

SpecStale == InitDirector /\ [][NextStale]_vars

\* ------------------------------------------------------------------------
\* Properties of the story aligner (SpecStory)
\* ------------------------------------------------------------------------
\* no element of the spoken batch loosely equals any token of the window
NoLooseMatch(spoken, window) ==
    \A j \in 1..Len(spoken) : \A k \in 1..Len(window) :
        ~eqLoose(window[k], spoken[j])

\* first token at or after position i that is not a separator
WordAt(i) == SkipEmpty(app.storyNorm, i)

\* C1: while a narrative is open, no advanceStoryWithTranscript call
\* decreases storyIndex.
C1_CursorNeverDecreases ==
    [][Len(storyLog') > Len(storyLog) => app'.storyIndex >= app.storyIndex]_vars

\* a call that moved the cursor by a recovery jump after an earlier call
\* had moved it by the forward scan
C1_Witness ==
    /\ Len(storyLog) >= 2
    /\ storyLog[1].after > storyLog[1].before
    /\ storyLog[2].jump
    /\ app.storyIndex > storyLog[1].after

\* C2 (as stated): a batch of 3 or more words none of which loosely matches
\* any of the next 40 tokens moves the cursor past no word token.
C2_NoWordTokenPassed ==
    \A n \in 1..Len(storyLog) :
        LET e == storyLog[n]
        IN  (/\ Len(e.spoken) >= 3
             /\ NoLooseMatch(e.spoken, Slice(app.storyNorm, e.before, e.before + 40)))
            => \A j \in e.before..(e.after - 1) : Tok(app.storyNorm, j) = <<>>

\* C2 (amended): such a batch causes no recovery jump, and the word tokens
\* among those 40 that the cursor passes are stop-words only.
C2_NoFalseRecovery ==
    \A n \in 1..Len(storyLog) :
        LET e == storyLog[n]
        IN  (/\ Len(e.spoken) >= 3
             /\ NoLooseMatch(e.spoken, Slice(app.storyNorm, e.before, e.before + 40)))
            => /\ ~e.jump
               /\ \A j \in e.before..(Min(e.after, e.before + 40) - 1) :
                     \/ Tok(app.storyNorm, j) = <<>>
                     \/ Tok(app.storyNorm, j) \in StopWords

\* a non-matching batch of three words whose scan skipped a stop-word
C2_Witness ==
    \E n \in 1..Len(storyLog) :
        LET e == storyLog[n]
        IN  /\ Len(e.spoken) >= 3
            /\ NoLooseMatch(e.spoken, Slice(app.storyNorm, e.before, e.before + 40))
            /\ e.after > e.before
            /\ \E j \in e.before..(e.after - 1) : Tok(app.storyNorm, j) \in StopWords

\* C3: a single spoken word that mismatches a stop-word at the cursor is
\* tested against the word token after it, and moves the cursor past that
\* token when it matches.
C3_StopWordSkipKeepsWord ==
    \A n \in 1..Len(storyLog) :
        LET e  == storyLog[n]
            t1 == WordAt(e.before)
            t2 == WordAt(t1 + 1)
        IN  (/\ Len(e.spoken) = 1
             /\ t1 < Len(app.storyNorm)
             /\ Tok(app.storyNorm, t1) \in StopWords
             /\ ~eqLoose(Tok(app.storyNorm, t1), e.spoken[1])
             /\ t2 < Len(app.storyNorm)
             /\ eqLoose(Tok(app.storyNorm, t2), e.spoken[1]))
            => e.after = t2 + 1

\* C4: a batch of fewer than 3 words makes no recovery jump; when none of
\* its words matches the word token at the cursor and that token is not a
\* stop-word, the cursor ends at that token.  With the story "Once upon a
\* time", "once" moves the cursor past "Once" and "time" leaves it at "upon".
C4_ShortBatchStays ==
    /\ \A n \in 1..Len(storyLog) :
          LET e == storyLog[n]
              t == WordAt(e.before)
          IN  Len(e.spoken) < 3 =>
                /\ ~e.jump
                /\ (/\ t < Len(app.storyNorm)
                    /\ Tok(app.storyNorm, t) \notin StopWords
                    /\ \A j \in 1..Len(e.spoken) :
                          ~eqLoose(Tok(app.storyNorm, t), e.spoken[j]))
                   => e.after = t
    /\ (/\ app.currentStory = "once"
        /\ Len(storyLog) >= 2
        /\ storyLog[1].spoken = << <<"o","n","c","e">> >>
        /\ storyLog[2].spoken = << <<"t","i","m","e">> >>)
       => /\ Tok(app.storyTokens, 0) = <<"O","n","c","e">>
          /\ storyLog[1].after = 1
          /\ storyLog[2].after = 2
          /\ Tok(app.storyTokens, 2) = <<"u","p","o","n">>

\* "once" then "time" spoken over "Once upon a time"
C4_Witness ==
    /\ app.currentStory = "once"
    /\ Len(storyLog) = 2
    /\ storyLog[1].spoken = << <<"o","n","c","e">> >>
    /\ storyLog[2].spoken = << <<"t","i","m","e">> >>
    /\ app.storyIndex = 2

\* ------------------------------------------------------------------------
\* Properties of the keyword cue extractor (SpecCue)
\* ------------------------------------------------------------------------
\* table index k is the first entry whose keyword occurs as a whole word
FirstMatchIs(k, text) ==
    /\ RegexWordTest(instantKeywords[k][1], ToLowerCase(text))
    /\ \A j \in 1..(k - 1) : ~RegexWordTest(instantKeywords[j][1], ToLowerCase(text))

\* C5: one run of checkInstantKeywords on one fragment hands at most one cue
\* to playInstantSound and starts at most one play request, and that cue is
\* the first entry of the keyword table, in table order, that matches the
\* fragment, however many trigger words the fragment holds.
C5_AtMostOneCueFirstWins ==
    \A n \in 1..Len(cueLog) :
        /\ Len(cueLog[n].cues) <= 1
        /\ cueLog[n].requests <= Len(cueLog[n].cues)
        /\ cueLog[n].cues # <<>> =>
              \E k \in 1..Len(instantKeywords) :
                  /\ instantKeywords[k] = cueLog[n].cues[1]
                  /\ FirstMatchIs(k, cueLog[n].text)

\* a fragment with three trigger words (bang, crash, boom) gave the one cue
\* of the first of them, and its play request was started
C5_Witness ==
    /\ cueLog # <<>>
    /\ cueLog[1].text = <<"B","a","n","g","!"," ","A"," ","c","r","a","s","h",","," ","t","h","e","n"," ","a"," ","b","o","o","m",".">>
    /\ Len(cueLog[1].cues) = 1
    /\ cueLog[1].cues[1][2] = <<"g","u","n","s","h","o","t"," ","e","x","p","l","o","s","i","o","n">>
    /\ cueLog[1].requests = 1

\* C6 as claimed: the fragment 'the dog barked suddenly' yields exactly one
\* cue, with query 'dog bark'.
C6_BarkedYieldsDogBark ==
    \A n \in 1..Len(cueLog) :
        cueLog[n].text = <<"t","h","e"," ","d","o","g"," ","b","a","r","k","e","d"," ","s","u","d","d","e","n","l","y">> =>
            /\ Len(cueLog[n].cues) = 1
            /\ cueLog[n].cues[1][2] = <<"d","o","g"," ","b","a","r","k">>

\* C6 amended: 'the dog barked suddenly' yields no cue, since bark is not a
\* whole word of it; 'the dog bark suddenly' yields exactly one cue, with
\* query 'dog bark'.
C6_WholeWordBarkOnly ==
    \A n \in 1..Len(cueLog) :
        /\ cueLog[n].text = <<"t","h","e"," ","d","o","g"," ","b","a","r","k","e","d"," ","s","u","d","d","e","n","l","y">> => cueLog[n].cues = <<>>
        /\ cueLog[n].text = <<"t","h","e"," ","d","o","g"," ","b","a","r","k"," ","s","u","d","d","e","n","l","y">> =>
              /\ Len(cueLog[n].cues) = 1
              /\ cueLog[n].cues[1][2] = <<"d","o","g"," ","b","a","r","k">>

\* the extractor has run on 'the dog barked suddenly' with sound effects on
\* and an audio source configured, and handed no cue on
C6_Witness ==
    /\ app.sfxEnabled
    /\ app.freesoundApiKey \/ app.pixabayApiKey
    /\ cueLog # <<>>
    /\ cueLog[1].text = <<"t","h","e"," ","d","o","g"," ","b","a","r","k","e","d"," ","s","u","d","d","e","n","l","y">>
    /\ cueLog[1].cues = <<>>
    /\ cueLog[1].requests = 0

\* ------------------------------------------------------------------------
\* Properties of sound effect playback (SpecSfx)
\* ------------------------------------------------------------------------
\* C8: at every instant the number of active sound effects is at most
\* maxSimultaneousSounds, also when a request's search is still pending
\* while another request passes the limit check.
C8_ActiveSfxWithinLimit ==
    Cardinality(app.activeSounds) <= app.maxSimultaneousSounds

\* the sound effects that are playing
PlayingSfx == { id \in DOMAIN howls : howls[id].kind = "sfx" }

\* C9: two triggers of one cooldown bucket that arrive within the cooldown
\* window give one play: no two playing sound effects of one bucket were
\* triggered less than sfxCooldownMs apart.
C9_OnePlayPerBucketWindow ==
    \A a \in PlayingSfx, b \in PlayingSfx :
        (a # b /\ howls[a].bucket = howls[b].bucket /\ howls[a].at <= howls[b].at)
            => howls[b].at - howls[a].at >= app.sfxCooldownMs

\* ------------------------------------------------------------------------
\* Properties of the music director (SpecMusic)
\* ------------------------------------------------------------------------
\* the music sounds that are playing
MusicSounds == { id \in DOMAIN howls : howls[id].kind = "music" }

\* the sound is being faded out: its stop is due within the cross-fade interval
FadingOut(id) ==
    \E t \in timers : t.kind = "stopHowl" /\ t.howl = id /\ t.due <= now + 650

\* C7: at most one music sound exists across all interleavings of play and
\* stop operations: every music sound that is playing is the tracked current
\* music, or is a replaced track on its way out, stopped and released
\* within the cross-fade interval.
C7_OneTrackedMusicSound ==
    \A id \in MusicSounds : id = app.currentMusic \/ FadingOut(id)

\* C10: when the requested track's context has the mood of the context of
\* the track that is playing, the track is neither changed nor restarted:
\* whenever a step replaces the playing music by another music sound, the
\* moods of the two tracks differ.
C10_SameMoodKeepsTrack ==
    [][ ( /\ app.currentMusic \in DOMAIN howls
          /\ app'.currentMusic \in DOMAIN howls'
          /\ app'.currentMusic # app.currentMusic )
        => MoodOf(howls'[app'.currentMusic].name) # MoodOf(howls[app.currentMusic].name) ]_vars

\* ------------------------------------------------------------------------
\* Properties of the music director (SpecDirector, SpecStale)
\* ------------------------------------------------------------------------
\* the minimum time between two changes of the music, and the transitions
\* between moods that count as smooth (Music System Improvements)
musicChangeThreshold == 30000

SmoothTransition(m1, m2) ==
    \/ m1 = m2
    \/ {m1, m2} \in { {"calm", "peaceful"}, {"tense", "epic"}, {"mysterious", "dark"} }

\* the last answer was applied: its version was current, music and
\* predictions were on, and the backend gave decisions
Applied(L) == ~L.stale /\ L.enabled /\ L.response # NoResponse

\* the last answer asked for music
AskedMusic(L) == Applied(L) /\ L.response.music # NoMusic

\* C11: without a forced change, a request for music of an incompatible
\* mood that arrives less than 30 s after the last change of the music
\* leaves the playing track in place.  No music plays at Epoch, so the
\* track that plays was started at most L.at - Epoch ago
C11_ThresholdBlocksChange ==
    musicLog # <<>> =>
        LET L == musicLog[1]
        IN  ( /\ AskedMusic(L)
              /\ L.response.music.action # "change"
              /\ CatalogFind(L.response.music.id) # 0
              /\ L.before # NoHowl
              /\ CatalogFind(L.beforeTrack) # 0
              /\ ~SmoothTransition(MoodOf(L.beforeTrack), MoodOf(L.response.music.id))
              /\ L.at - Epoch < musicChangeThreshold )
            => L.after = L.before

\* C12: a request with action "change" for a track of the catalog makes
\* that track the current music, in a new playback, however soon after the
\* last change it arrives
C12_ForceChangePlaysTrack ==
    musicLog # <<>> =>
        LET L == musicLog[1]
        IN  ( /\ AskedMusic(L)
              /\ L.response.music.action = "change"
              /\ CatalogFind(L.response.music.id) # 0 )
            => /\ L.after # NoHowl
               /\ L.after # L.before
               /\ L.afterTrack = L.response.music.id

\* a forced change arrives while music plays that was started less than
\* 30 s before
C12_Witness ==
    /\ musicLog # <<>>
    /\ AskedMusic(musicLog[1])
    /\ musicLog[1].response.music.action = "change"
    /\ musicLog[1].before # NoHowl
    /\ musicLog[1].at - Epoch < musicChangeThreshold
    /\ musicLog[1].afterTrack = musicLog[1].response.music.id

\* C13: a "play_or_continue" request for the track that is playing creates
\* no playback and stops none: the music is as it was
C13_SameTrackContinues ==
    musicLog # <<>> =>
        LET L == musicLog[1]
        IN  ( /\ AskedMusic(L)
              /\ L.response.music.action = "play_or_continue"
              /\ L.before # NoHowl
              /\ L.beforeTrack = L.response.music.id )
            => L.musicSame

\* C14: a request for a track that is not in the catalog leaves the current
\* music, the music sounds and their pending stops as they were
C14_UnknownTrackKeepsMusic ==
    musicLog # <<>> =>
        LET L == musicLog[1]
        IN  ( /\ AskedMusic(L)
              /\ CatalogFind(L.response.music.id) = 0 )
            => L.musicSame

\* a request for an unknown track arrived while music played, and it plays on
C14_Witness ==
    /\ musicLog # <<>>
    /\ AskedMusic(musicLog[1])
    /\ CatalogFind(musicLog[1].response.music.id) = 0
    /\ musicLog[1].before # NoHowl
    /\ app.currentMusic = musicLog[1].before
    /\ app.currentMusic \in DOMAIN howls

\* the ids a decision names
IdsOf(decision) ==
    (IF decision.music = NoMusic THEN {} ELSE {decision.music.id})
        \cup { decision.sfx[k].id : k \in 1..Len(decision.sfx) }

\* C15: every sound that plays is a sound of the catalog, and a decision
\* that came from the backend names only ids of the catalog
C15_OnlyCatalogSoundsPlay ==
    /\ \A h \in DOMAIN howls : CatalogFind(howls[h].name) # 0
    /\ (musicLog # <<>> /\ musicLog[1].route = "backend"
                         /\ musicLog[1].response # NoResponse)
           => \A i \in IdsOf(musicLog[1].response) : CatalogFind(i) # 0

\* an unvalidated decision named an unknown sound effect and a known one, and
\* the known one plays
C15_Witness ==
    /\ musicLog # <<>>
    /\ Applied(musicLog[1])
    /\ musicLog[1].route = "client"
    /\ \E i \in IdsOf(musicLog[1].response) : CatalogFind(i) = 0
    /\ \E h \in DOMAIN howls : howls[h].kind = "sfx" /\ h \in { s.id : s \in app.activeSounds }

\* C18: an answer whose version is no longer the current one starts and
\* stops nothing: the sounds, the timers, the active sounds and the current
\* music are as they were
C18_StaleAnswerDiscarded ==
    (musicLog # <<>> /\ musicLog[1].stale) => musicLog[1].soundsSame

\* a stale answer asked for a track of the catalog while the music of an
\* answer of the current mode plays
C18_Witness ==
    /\ musicLog # <<>>
    /\ app.currentMusic # NoHowl
    /\ musicLog[1].stale
    /\ musicLog[1].enabled
    /\ musicLog[1].response # NoResponse
    /\ musicLog[1].response.music # NoMusic
    /\ CatalogFind(musicLog[1].response.music.id) # 0

\* ------------------------------------------------------------------------
\* Properties of sound requests across changes of the mode (SpecCancel)
\* ------------------------------------------------------------------------
\* the step resumes the sound request t
Resumes(t) == CopiesIn(t, tasks') < CopiesIn(t, tasks)

\* C19: the continuation of a sound request that was issued before the last
\* change of the mode starts no sound and leaves the active sounds as they
\* are
C19_ModeChangeCancelsRequests ==
    [][ \A t \in BagToSet(tasks) :
           ( /\ t.kind = "playSoundEffect"
             /\ t.version # app.analysisVersion
             /\ Resumes(t) )
           => /\ howls' = howls
              /\ app'.activeSounds = app.activeSounds ]_vars

\* ------------------------------------------------------------------------
\* Properties of the preload and of the prefetch (SpecPreload, SpecPrefetch)
\* ------------------------------------------------------------------------
\* the step just taken resumed a preload task whose token was stale
StalePreloadResumed ==
    /\ preloadLog # <<>>
    /\ preloadLog[1].kind = "preload"
    /\ preloadLog[1].stale

\* C16: a preload task of a superseded version that resumes starts no
\* playback and leaves the sounds, their timers, the active sounds and the
\* current music as they are
C16_StalePreloadTouchesNoSound ==
    StalePreloadResumed => preloadLog[1].soundsSame

\* a stale preload task resumed and wrote to a cache
C16_Witness ==
    /\ StalePreloadResumed
    /\ preloadLog[1].cached

\* C17: a preload task of a superseded version that resumes issues no fetch,
\* decodes nothing and causes no status update
C17_StalePreloadAborts ==
    StalePreloadResumed =>
        /\ ~preloadLog[1].fetchIssued
        /\ ~preloadLog[1].decoded
        /\ ~preloadLog[1].settled

\* the number of copies in the bag B of the elements of S
RECURSIVE SumCopies(_, _)
SumCopies(S, B) ==
    IF S = {} THEN 0
    ELSE LET x == CHOOSE y \in S : TRUE
         IN  CopiesIn(x, B) + SumCopies(S \ {x}, B)

\* the resolution and warm tasks in flight, of every origin
ResolutionsInFlight ==
    SumCopies({ t \in BagToSet(tasks) : t.kind \in {"preload", "prefetch"} }, tasks)

\* C20: the resolution and warm tasks in flight are never more than the
\* preload concurrency
C20_InFlightWithinConcurrency ==
    ResolutionsInFlight <= getPreloadConcurrency(World)

\* ------------------------------------------------------------------------
\* Properties of the story window prefetch (SpecWindow)
\* ------------------------------------------------------------------------
\* the prefetch tasks in flight for the query q
WindowInFlight(q) ==
    SumCopies({ t \in BagToSet(tasks) : t.kind = "prefetch" /\ t.q = q }, tasks)

\* C21: at most one prefetch resolution is in flight for a cue query, and no
\* search is in flight for a query whose URL is cached
C21_WindowPrefetchDeduplicated ==
    \A k \in 1..Len(storyCueMap) :
        /\ WindowInFlight(storyCueMap[k][2]) <= 1
        /\ \A t \in BagToSet(tasks) :
               (t.kind = "prefetch" /\ t.stage = "search") => t.q \notin app.soundCache

\* C22: every preload pass ends: whenever preloadInProgress is set it is
\* cleared later, also when a provider does not answer
C22_PreloadPassEnds ==
    app.preloadInProgress ~> ~app.preloadInProgress

\* ------------------------------------------------------------------------
\* Properties of the handling of speech results (SpecSpeech)
\* ------------------------------------------------------------------------
\* the last n elements of s
LastN(s, n) == IF Len(s) <= n THEN s ELSE SubSeq(s, Len(s) - n + 1, Len(s))

LastSpeech == speechLog[Len(speechLog)]

\* what a step that handles a speech result does to the transcript
BufferStep ==
    LET L        == speechLog'[Len(speechLog')]
        final    == FinalTranscript(L.results)
        interim  == InterimTranscript(L.results)
        switched == ModeMatch(ToLowerCase(final)) # <<>>
    IN  /\ Len(app'.transcriptBuffer) <= BufferCap
        /\ final # <<>> =>
              /\ app'.currentInterim = <<>>
              /\ IF switched THEN app'.transcriptBuffer = <<>>
                 ELSE app'.transcriptBuffer =
                          LastN(Append(app.transcriptBuffer, Trim(final)), BufferCap)
        /\ final = <<>> =>
              /\ app'.transcriptBuffer = app.transcriptBuffer
              /\ app'.currentInterim = Trim(interim)

\* C23: a step that handles a speech result leaves at most BufferCap
\* fragments in the buffer; a final fragment is appended, the oldest fragment
\* is dropped when the buffer is over its capacity, and the interim slot is
\* cleared (a voice command that switches the mode empties the buffer); an
\* interim result only replaces the interim slot
C23_TranscriptBufferRolls ==
    [][speechLog' # speechLog => BufferStep]_vars

\* a final fragment was handled while the buffer was full
C23_Witness ==
    /\ speechLog # <<>>
    /\ FinalTranscript(LastSpeech.results) # <<>>
    /\ LastSpeech.lenBefore = BufferCap
    /\ Len(app.transcriptBuffer) = BufferCap

\* C24: the playback effects of a fragment are applied before the next
\* fragment is handled: when a speech result is handled no sound request of
\* an earlier fragment is still suspended
C24_FragmentsNotInterleaved ==
    \A k \in 1..Len(speechLog) : speechLog[k].pending = 0

\* ------------------------------------------------------------------------
\* Properties of sound effects that fail to load (SpecLoad)
\* ------------------------------------------------------------------------
\* C25: a sound effect whose file failed to load is not among the active
\* sounds, so it takes none of the maxSimultaneousSounds places
C25_FailedLoadDropped ==
    \A s \in app.activeSounds :
        s.id \in DOMAIN howls => howls[s.id].kind # "sfx load error"

\* ------------------------------------------------------------------------
\* Properties of the back-off after a 429 (SpecBackoff)
\* ------------------------------------------------------------------------
\* the analyses in flight on a route
Requests(bag, route) ==
    BagCardinality(BagOfAll(LAMBDA t : t.route,
        [ t \in { u \in BagToSet(bag) : u.kind = "analyzeContext" /\ u.route = route } |-> bag[t] ]))

\* a step sends a request to the backend only when no cooldown is running,
\* and an analysis started when no cooldown is running goes to the backend
BackoffStep ==
    /\ Requests(tasks', "backend") > Requests(tasks, "backend") => now >= app.backendCooldownUntil
    /\ (/\ Requests(tasks', "backend") + Requests(tasks', "client")
             > Requests(tasks, "backend") + Requests(tasks, "client")
        /\ now >= app.backendCooldownUntil)
       => Requests(tasks', "backend") > Requests(tasks, "backend")

\* a keyword cue and a story cue start their sound requests whatever the
\* cooldown is
CuesKeepWorking ==
    /\ BagCardinality(checkInstantKeywords(World, <<"a"," ","K","n","o","c","k">>).tasks) = BagCardinality(tasks) + 1
    /\ BagCardinality(maybeTriggerStorySfx(World, << <<"b","e","l","l">> >>).tasks) = BagCardinality(tasks) + 1

\* C26: for backendCooldownMs after a 429 no analysis is sent to the
\* backend, and afterwards analyses go to the backend again; keyword cues and
\* story cues start their sounds all the time
C26_BackoffAfter429 ==
    [][BackoffStep]_vars /\ []CuesKeepWorking

\* an analysis started during the cooldown was kept from the backend
C26_Witness ==
    /\ now < app.backendCooldownUntil
    /\ app.lastAnalysisTime > app.backendCooldownUntil - backendCooldownMs
    /\ \E t \in BagToSet(tasks) : t.kind = "analyzeContext" /\ t.route = "client"

\* ------------------------------------------------------------------------
\* Properties of the backend's rate limiter (SpecRate)
\* ------------------------------------------------------------------------
\* the requests of an address admitted in the interval [from, to]
Admitted(ip, from, to) ==
    { k \in 1..Len(served[ip]) :
         served[ip][k].status = 200 /\ served[ip][k].time >= from /\ served[ip][k].time <= to }

\* C27: for every address, the requests admitted within any interval
\* shorter than a minute are at most RATE_LIMIT_MAX; a request is refused
\* only after RATE_LIMIT_MAX admitted ones of the same address within the
\* last minute; and the count kept for an address is the number of its own
\* admitted requests in its current window
C27_TenPerMinutePerIp ==
    \A ip \in ClientIps :
        /\ \A k \in 1..Len(served[ip]) :
              LET t == served[ip][k].time
              IN  /\ Cardinality(Admitted(ip, t - RATE_LIMIT_WINDOW + 1, t)) <= RATE_LIMIT_MAX
                  /\ served[ip][k].status = 429 =>
                        Cardinality(Admitted(ip, t - RATE_LIMIT_WINDOW, t)) >= RATE_LIMIT_MAX
        /\ ip \in DOMAIN rateLimitMap =>
              rateLimitMap[ip].count =
                 Cardinality(Admitted(ip, rateLimitMap[ip].resetTime - RATE_LIMIT_WINDOW,
                                      rateLimitMap[ip].resetTime + MaxServerTime))

\* ------------------------------------------------------------------------
\* Properties of the ducking envelope (SpecDuck)
\* ------------------------------------------------------------------------
MusicVolumeOf(registry) ==
    [ id \in { i \in DOMAIN registry : registry[i].kind = "music" } |-> registry[id].volume ]

\* a sound effect that starts during an envelope leaves the volume of the
\* music and the timers as they are
DuckStep ==
    (app.duckingInProgress /\ DOMAIN howls' # DOMAIN howls /\ DOMAIN howls \subseteq DOMAIN howls')
       => /\ MusicVolumeOf(howls') = MusicVolumeOf(howls)
          /\ timers' = timers
          /\ app'.duckingInProgress

\* at most one envelope runs: one timer of the ducking is pending while
\* duckingInProgress is set, none otherwise
OneEnvelope ==
    Cardinality({ t \in timers : t.kind \in {"duckRelease", "duckEnd"} })
       = IF app.duckingInProgress THEN 1 ELSE 0

\* C28: while duckingInProgress is set a further duckMusic call changes
\* neither the volume of the music nor a timer, one envelope runs at a time,
\* and every envelope ends: duckingInProgress is cleared again
C28_SingleDuckingEnvelope ==
    /\ [][DuckStep]_vars
    /\ []OneEnvelope
    /\ [](app.duckingInProgress => duckMusic(World, 600) = World)
    /\ (app.duckingInProgress ~> ~app.duckingInProgress)

\* a second sound effect has started while the music was ducked
C28_Witness ==
    /\ app.duckingInProgress
    /\ Cardinality(app.activeSounds) = 2
    /\ \E t \in timers : t.kind = "duckRelease" /\ howls[t.howl].volume = t.duckTo
                                                 /\ t.duckTo < t.currentVol

\* ------------------------------------------------------------------------
\* Properties of the generation counters (SpecGeneration)
\* ------------------------------------------------------------------------
\* C29: preloadVersion and analysisVersion never decrease, a change of the
\* mode strictly increases both, and the closing of a story increases the
\* generation counter that the story's prefetches in flight were started
\* under
C29_GenerationCountersBumped ==
    [][ /\ app'.preloadVersion >= app.preloadVersion
        /\ app'.analysisVersion >= app.analysisVersion
        /\ app'.preloadTimers # app.preloadTimers =>
              /\ app'.preloadVersion > app.preloadVersion
              /\ app'.analysisVersion > app.analysisVersion
        /\ (app.storyActive /\ ~app'.storyActive) =>
              app'.preloadVersion > app.preloadVersion ]_vars

\* ------------------------------------------------------------------------
\* Properties of the recognition session (SpecListen)
\* ------------------------------------------------------------------------
\* a step that is not a startListening starts recognition only while
\* listening, and sets a restart only while listening
RestartStep ==
    /\ (/\ app.recognition = "idle"
        /\ app'.recognition = "active"
        /\ app'.preloadVersion = app.preloadVersion) => app.isListening
    /\ ~app.isListening => timers' \subseteq timers

\* C30: while isListening stays true, the end of the recognition session is
\* followed by a restart of recognition; when isListening is false, neither
\* an end event nor a restart timer already pending starts recognition
C30_RecognitionRestarts ==
    /\ ((app.isListening /\ app.recognition = "idle")
           ~> (app.recognition = "active" \/ ~app.isListening))
    /\ [][RestartStep]_vars

\* listening stopped while a restart was pending, and the timer is due
C30_Witness ==
    /\ ~app.isListening
    /\ app.recognition = "idle"
    /\ \E t \in timers : t.kind = "restartRecognition" /\ t.due <= now

\* ------------------------------------------------------------------------
\* Properties of runWithConcurrency (SpecPool)
\* ------------------------------------------------------------------------
\* the task functions that have been called and have not completed
PoolInFlight == Range(app.pool.started) \ Range(app.pool.finished)

NoRepeats(s) == \A i, j \in 1..Len(s) : s[i] = s[j] => i = j

\* C31: every task function is called at most once and, when the pool has
\* resolved, exactly once; at most min(limit, number of tasks) are in flight;
\* a task that throws does not keep the others from running; and the pool
\* has resolved exactly when all tasks have completed and no runner is left
\* in its loop
C31_PoolRunsEachTaskOnce ==
    /\ NoRepeats(app.pool.started)
    /\ NoRepeats(app.pool.finished)
    /\ Range(app.pool.started) \subseteq 1..app.pool.size
    /\ Cardinality(PoolInFlight) <= Min(app.pool.limit, app.pool.size)
    /\ app.pool.resolved =>
          /\ Range(app.pool.started) = 1..app.pool.size
          /\ Range(app.pool.finished) = 1..app.pool.size
    /\ app.pool # NoPool =>
          (app.pool.resolved <=>
              /\ Range(app.pool.finished) = 1..app.pool.size
              /\ \A t \in BagToSet(tasks) : t.kind # "poolTask")

\* as many tasks as are followed have all run under a smaller limit
C31_Witness ==
    /\ app.pool.resolved
    /\ app.pool.size = MaxPoolTasks
    /\ app.pool.limit < app.pool.size
    /\ Len(app.pool.started) = MaxPoolTasks

\* ------------------------------------------------------------------------
\* Properties of the start of a story (SpecStoryFlow)
\* ------------------------------------------------------------------------
\* C32: when startStoryFlowAsync has switched the mode, the story overlay
\* is shown only after the preload pass of that switch has started and
\* finished (its timer has fired and no pass is in progress), or after the
\* 15 s of the safety timeout
C32_OverlayAfterPreload ==
    [][ (~app.storyActive /\ app'.storyActive /\ app'.storyFlow.switched)
           => \/ /\ app'.storyFlow.token \notin app'.preloadTimers
                 /\ ~app'.preloadInProgress
              \/ now' - app'.storyFlow.start >= 15000 ]_vars

\* ------------------------------------------------------------------------
\* Properties of stopListening (SpecDirector)
\* ------------------------------------------------------------------------
\* C33: when stopListening returns, no sound that was playing before the
\* call is still playing, currentMusic is null and activeSounds is empty
C33_StopListeningSilences ==
    [][ (app.isListening /\ ~app'.isListening)
           => /\ DOMAIN howls \cap DOMAIN howls' = {}
              /\ app'.currentMusic = NoHowl
              /\ app'.activeSounds = {} ]_vars

\* ------------------------------------------------------------------------
\* Properties of the volume of the music after ducking (SpecFadeIn)
\* ------------------------------------------------------------------------
\* no fade and no envelope is under way
VolumeSettled ==
    /\ ~app.duckingInProgress
    /\ \A t \in timers : t.kind \notin {"fade", "duckRelease", "duckEnd"}

\* C34: when the ducking envelope is over and nothing else has asked for a
\* volume, the music has its target volume, also when the sound effect
\* started while the music was faded in
C34_VolumeRestoredToTarget ==
    VolumeSettled =>
       \A id \in DOMAIN howls :
          howls[id].kind = "music" => howls[id].volume = howls[id].target

\* ------------------------------------------------------------------------
\* Properties of handleSpeechError (SpecError)
\* ------------------------------------------------------------------------
\* C35: the errors "audio-capture" and "not-allowed" end the session through
\* stopListening, with isListening false and the analysis timer cleared;
\* "no-speech", "network" and every other error leave isListening and all
\* playback state as they are
C35_SpeechErrorsClassified ==
    \A error \in SpeechErrors :
       LET w == handleSpeechError(World, error)
       IN  IF error \in {"audio-capture", "not-allowed"}
           THEN w = stopListening(World) /\ ~w.app.isListening /\ w.app.analysisTimer = NoTimer
           ELSE w = World

\* an error has ended the session in which the director had started sounds:
\* listening is off and no analysis timer is left
C35_Witness ==
    /\ ~app.isListening
    /\ app.analysisTimer = NoTimer
    /\ DOMAIN howls # {}
    /\ app.preloadVersion = 1

\* ------------------------------------------------------------------------
\* Properties of the recovery jump (SpecStory)
\* ------------------------------------------------------------------------
\* the tokens from position t on hold a run that the first three words of
\* the batch loosely match in order, at positions p1 < p2 < p3 before the
\* end of the scan window, with nothing but separators and skipped small
\* words at the other positions from t to p3
LooseRunAt(norm, spoken, t, windowEnd) ==
    \E p1 \in t..(windowEnd - 1) : \E p2 \in (p1 + 1)..(windowEnd - 1) : \E p3 \in (p2 + 1)..(windowEnd - 1) :
       /\ eqLoose(Tok(norm, p1), spoken[1])
       /\ eqLoose(Tok(norm, p2), spoken[2])
       /\ eqLoose(Tok(norm, p3), spoken[3])
       /\ \A k \in (t..p3) \ {p1, p2, p3} :
             Tok(norm, k) = <<>> \/ Tok(norm, k) \in RecoverySkipWords

PassAttempted(v) ==
    \/ \E t \in BagToSet(tasks) : t.kind = "preload" /\ t.token = v
    \/ \A k \in 1..Len(PreloadTarget(World)) :
          /\ PreloadTarget(World)[k] \in app.soundCache
          /\ PreloadTarget(World)[k] \in app.activeBuffers

\* C37: every change of the mode is followed by a preload pass for the new
\* mode, unless the mode is changed again first, also when the preload of
\* the previous mode is in progress at the time of the change
C37_ModeChangePreloads ==
    \A v \in 1..MaxRestarts :
       (app.preloadVersion = v /\ v \in app.preloadTimers)
          ~> (app.preloadVersion # v \/ PassAttempted(v))

\* ------------------------------------------------------------------------
\* Properties of the gate of the live analysis (SpecStale)
\* ------------------------------------------------------------------------
\* the analyses started by maybeAnalyzeLive that have not come back
AnalysesInFlight ==
    [ t \in { u \in BagToSet(tasks) : u.kind = "analyzeContext" } |-> CopiesIn(t, tasks) ]

\* C38: at most one live analysis is in flight at any time, and
\* analysisInProgress is set while one is pending
C38_OneAnalysisInFlight ==
    /\ BagCardinality(AnalysesInFlight) <= 1
    /\ BagCardinality(AnalysesInFlight) = 1 => app.analysisInProgress

\* ------------------------------------------------------------------------
\* Properties of the time between stopListening and startListening
\* (SpecDirector)
\* ------------------------------------------------------------------------
\* C39: while the director is not listening no new sound starts playing: a
\* timer or a request in flight from before the stop begins no playback
C39_SilentWhileStopped ==
    [][ (~app.isListening /\ ~app'.isListening)
           => DOMAIN howls' \subseteq DOMAIN howls ]_vars

====
